---- MODULE Spec2Model ----
(***************************************************************************)
(* A model of the Wyman Cove weather collector (src/collector.py): the     *)
(* model fetchers with their fallback, the last-known-good caches of the   *)
(* observation fetchers, the rolling ASOS history with its pressure        *)
(* tendency, the frost/freeze season log, the document and the derived     *)
(* metrics of process_data, and invocations that overlap on the cache      *)
(* files.                                                                  *)
(*                                                                         *)
(* Conventions.  A Python dict is a function from its keys to its values;  *)
(* {} is the function with the empty domain.  An optional value (None or   *)
(* v) is the sequence <<>> or <<v>>.  A number with one decimal is the     *)
(* integer of its tenths (41.2 is 412); a pressure change is carried in    *)
(* hundredths of a hPa where two decimals matter (2.99 is 299).  A date    *)
(* "YYYY-MM-DD" is the integer YYYYMMDD, whose order is the order of the   *)
(* strings.                                                                *)
(***************************************************************************)
EXTENDS Integers, Sequences, FiniteSets, TLC

VARIABLES
    pws_file,      \* last_pws.json: None (no file) or the cached dict
    asos_file,     \* station -> last_<station>.json: None or the history list
    buoy_file,     \* last_buoy.json: None or the cached dict
    ret,           \* what the latest fetcher call returned: source, data, meta
    wrote,         \* whether the latest fetcher call wrote its cache file
    lastGood,      \* source -> None or the data of its latest "ok" run
    fetched,       \* station -> the observations of its "ok" runs, in order
    frost_file,    \* frost_log.json: None or the log dict
    today,         \* the UTC date of the clock
    lastOp,        \* "init", "tick" or "run": the latest step of the frost part
    folded,        \* the (date, min) entries the latest run of the fold visited
    counted,       \* the dates that have incremented a counter so far
    daily_data,    \* the zipped (date, min) entries the latest run was given
    hourly_p,      \* weather_data["hourly"]["pressure"] of the latest document
    derived,       \* the derived block of the latest document
    weather_data,  \* the latest document before its derived metrics are computed
    wind_risk,     \* None or the wind_risk block of the latest document
    document,      \* the document the latest run of process_data returned
    inputs,        \* the arguments of the latest run of process_data
    requested,     \* the Open-Meteo requests of the latest model fetcher call
    om_ret,        \* what the latest model fetcher call returned: data, meta
    reading        \* invocation -> what it has read and not yet written back

cacheVars   == <<pws_file, asos_file, buoy_file, ret, wrote, lastGood, fetched>>
frostVars   == <<frost_file, today, lastOp, folded, counted, daily_data>>
derivedVars == <<hourly_p, derived, weather_data, wind_risk, document, inputs>>
omVars      == <<requested, om_ret>>
raceVars    == <<reading>>
vars        == <<pws_file, asos_file, buoy_file, ret, wrote, lastGood, fetched,
                 frost_file, today, lastOp, folded, counted, daily_data,
                 hourly_p, derived, weather_data, wind_risk, document, inputs,
                 requested, om_ret, reading>>

-----------------------------------------------------------------------------
(* Values *)

\* Two invocations of the collector that may run at the same time.
Invocations == {"first", "second"}

\* An invocation that holds nothing it has read.
Idle == [pc |-> "idle"]

None == <<>>

Some(v) == <<v>>

EmptyDict == [k \in {} |-> 0]

\* dict(d) with d[key] = value set afterwards.
SetKey(d, key, value) == [k \in DOMAIN d \cup {key} |-> IF k = key THEN value ELSE d[k]]

\* round(n / d) for d > 0, ties to even, as Python's round does on an exact tie.
RoundDiv(n, d) ==
    LET q == n \div d
        r == n % d
    IN  IF 2 * r < d THEN q
        ELSE IF 2 * r > d THEN q + 1
        ELSE IF q % 2 = 0 THEN q ELSE q + 1

\* The last n elements of s: s[-n:].
LastN(s, n) == IF Len(s) <= n THEN s ELSE SubSeq(s, Len(s) - n + 1, Len(s))

Stations == {"KBOS", "KBVY"}

Sources == {"pws", "buoy"} \cup Stations

PWS_STATION == "KMAMARBL63"

HISTORY_KEEP == 6

-----------------------------------------------------------------------------
(* The Open-Meteo fetchers *)

\* _om_get on the answer resp of the service: resp.kind is "ok" with the
\* payload resp.data, "http" (the request or its status failed) or "api" (the
\* payload carries an error), both with the message resp.err.
om_get(params, label, resp) ==
    IF resp.kind = "ok"
    THEN [data |-> Some(resp.data),
          meta |-> [status |-> "ok", error |-> None, model |-> label]]
    ELSE [data |-> None,
          meta |-> [status |-> "error", error |-> Some(resp.err), model |-> label]]

\* One request as it is logged: its parameters, its label and its answer.
Request(params, label, resp) == [params |-> params, label |-> label, resp |-> resp]

\* A fetcher that asks the fallback whatever the primary answered.
FetchWithFallbackAlways(primary, fallback, r1, r2) ==
    LET second == om_get(fallback.params, fallback.label, r2)
    IN  [data |-> second.data, meta |-> second.meta,
         requests |-> <<Request(primary.params, primary.label, r1),
                        Request(fallback.params, fallback.label, r2)>>]

\* The primary request and, when it returned no data, the fallback request;
\* r1 and r2 are the answers the service has for the two.
FetchWithFallback(primary, fallback, r1, r2) ==
    LET first == om_get(primary.params, primary.label, r1)
    IN  IF first.data = None
        THEN LET second == om_get(fallback.params, fallback.label, r2)
             IN  [data |-> second.data, meta |-> second.meta,
                  requests |-> <<Request(primary.params, primary.label, r1),
                                 Request(fallback.params, fallback.label, r2)>>]
        ELSE [data |-> first.data, meta |-> first.meta,
              requests |-> <<Request(primary.params, primary.label, r1)>>]

HrrrRequest ==
    [params |-> [section |-> "hourly", vars |-> "_HRRR_HOURLY",
                 models |-> Some("ncep_hrrr_conus")],
     label  |-> "HRRR hourly"]

HrrrFallback ==
    [params |-> [section |-> "hourly", vars |-> "_GFS_HOURLY", models |-> None],
     label  |-> "GFS seamless (HRRR fallback)"]

EcmwfRequest ==
    [params |-> [section |-> "daily", vars |-> "_DAILY_VARS",
                 models |-> Some("ecmwf_ifs025")],
     label  |-> "ECMWF daily"]

EcmwfFallback ==
    [params |-> [section |-> "daily", vars |-> "_DAILY_VARS", models |-> None],
     label  |-> "GFS seamless (ECMWF fallback)"]

fetch_hourly_hrrr(r1, r2) == FetchWithFallback(HrrrRequest, HrrrFallback, r1, r2)

fetch_daily_ecmwf(r1, r2) == FetchWithFallback(EcmwfRequest, EcmwfFallback, r1, r2)

GfsRequest ==
    [params |-> [section |-> "current", vars |-> "_CURRENT_VARS", models |-> None],
     label  |-> "GFS current"]

fetch_current_gfs(r1) ==
    LET only == om_get(GfsRequest.params, GfsRequest.label, r1)
    IN  [data |-> only.data, meta |-> only.meta,
         requests |-> <<Request(GfsRequest.params, GfsRequest.label, r1)>>]

Returned(r) ==
    /\ requested' = r.requests
    /\ om_ret' = [data |-> r.data, meta |-> r.meta]
    /\ UNCHANGED cacheVars
    /\ UNCHANGED frostVars
    /\ UNCHANGED derivedVars
    /\ UNCHANGED raceVars

FetchHourly(r1, r2) == Returned(fetch_hourly_hrrr(r1, r2))

FetchDaily(r1, r2) == Returned(fetch_daily_ecmwf(r1, r2))

FetchCurrent(r1) == Returned(fetch_current_gfs(r1))

-----------------------------------------------------------------------------
(* fetch_pws_current *)

\* PwsFallback returning the cached value without marking it stale.
PwsFallbackNotStale(last) ==
    IF last # None /\ last[1] # EmptyDict /\ last[1].temperature # None
    THEN last[1]
    ELSE [station |-> PWS_STATION, name |-> "Castle Hill", updated |-> None,
          temperature |-> None, stale |-> TRUE]

\* The except branch: the cached value marked stale, or the placeholder.
PwsFallback(last) ==
    IF last # None /\ last[1] # EmptyDict /\ last[1].temperature # None
    THEN SetKey(last[1], "stale", TRUE)
    ELSE [station |-> PWS_STATION, name |-> "Castle Hill", updated |-> None,
          temperature |-> None, stale |-> TRUE]

\* fetch_pws_current caching the scraped value before the temperature check.
fetch_pws_current_SaveFirst(last, resp, now) ==
    LET pws_data == [station |-> PWS_STATION, name |-> "Castle Hill",
                     updated |-> Some(now), temperature |-> resp.temp,
                     stale |-> FALSE]
    IN  IF resp.ok /\ resp.temp # None
        THEN [data |-> pws_data,
              meta |-> [status |-> "ok", error |-> None],
              save |-> Some(pws_data)]
        ELSE [data |-> PwsFallback(last),
              meta |-> [status |-> "error", error |-> Some(resp.err)],
              save |-> IF resp.ok THEN Some(pws_data) ELSE None]

\* resp: [ok: the request succeeded, err: its error text, temp: None or the
\* number parsed from the page]; now: the runner's clock.
\* Returns the data, the meta and what was saved to the cache file (None: no write).
fetch_pws_current(last, resp, now) ==
    IF resp.ok /\ resp.temp # None
    THEN LET pws_data == [station |-> PWS_STATION, name |-> "Castle Hill",
                          updated |-> Some(now), temperature |-> resp.temp,
                          stale |-> FALSE]
         IN  [data |-> pws_data,
              meta |-> [status |-> "ok", error |-> None],
              save |-> Some(pws_data)]
    ELSE [data |-> PwsFallback(last),
          meta |-> [status |-> "error",
                    error |-> Some(IF resp.ok
                                   THEN "Could not parse PWS temperature (WU DOM likely changed)."
                                   ELSE resp.err)],
          save |-> None]

FetchPws(resp, now) ==
    LET r == fetch_pws_current(pws_file, resp, now) IN
    /\ pws_file' = IF r.save = None THEN pws_file ELSE r.save
    /\ ret' = [src |-> "pws", data |-> r.data, meta |-> r.meta]
    /\ wrote' = (r.save # None)
    /\ lastGood' = IF r.meta.status = "ok"
                   THEN [lastGood EXCEPT !["pws"] = Some(r.data)] ELSE lastGood
    /\ UNCHANGED <<asos_file, buoy_file, fetched>>
    /\ UNCHANGED frostVars
    /\ UNCHANGED derivedVars
    /\ UNCHANGED omVars
    /\ UNCHANGED raceVars

-----------------------------------------------------------------------------
(* fetch_asos_obs *)

\* TendencyLabel with strict comparisons.
TendencyLabelStrict(t) ==
    IF t > 300 THEN "Rising fast"
    ELSE IF t > 60 THEN "Rising"
    ELSE IF t < -300 THEN "Falling fast"
    ELSE IF t < -60 THEN "Falling"
    ELSE "Steady"

\* The label of a tendency given in hundredths of a hPa.
TendencyLabel(t) ==
    IF t >= 300 THEN "Rising fast"
    ELSE IF t >= 60 THEN "Rising"
    ELSE IF t <= -300 THEN "Falling fast"
    ELSE IF t <= -60 THEN "Falling"
    ELSE "Steady"

\* AppendTruncate keeping the first six entries: history[:6].
AppendTruncateHead(history, obs) ==
    LET h == Append(history, obs)
    IN  IF Len(h) <= HISTORY_KEEP THEN h ELSE SubSeq(h, 1, HISTORY_KEEP)

\* history.append(obs); history = history[-6:]
AppendTruncate(history, obs) == LastN(Append(history, obs), HISTORY_KEEP)

\* FirstPressure reading the oldest entry whether or not it has a pressure.
FirstPressureOldest(history) ==
    IF history = <<>> THEN None ELSE history[1].pressure_hpa

\* next((h["pressure_hpa"] for h in history if h.get("pressure_hpa") is not None), None)
FirstPressure(history) ==
    LET idx == {i \in 1..Len(history) : history[i].pressure_hpa # None}
    IN  IF idx = {} THEN None
        ELSE history[CHOOSE i \in idx : \A j \in idx : i <= j].pressure_hpa

\* tendency_hpa (tenths of a hPa) and tendency_label, from the truncated history.
Tendency(history, obs) ==
    LET first_p  == FirstPressure(history)
        newest_p == obs.pressure_hpa
    IN  IF first_p # None /\ newest_p # None /\ Len(history) >= 2
        THEN LET tendency_hpa == newest_p[1] - first_p[1]
             IN  [hpa |-> Some(tendency_hpa),
                  label |-> Some(TendencyLabel(10 * tendency_hpa))]
        ELSE [hpa |-> None, label |-> None]

\* The observation built from the properties of the API's answer.
\* seaLevelPressure is in Pa, temperature and dewpoint in tenths of a degree C,
\* windSpeed in tenths of a km/h; the results are in tenths.
AsosObs(station_id, props) ==
    [station      |-> station_id,
     time         |-> props.timestamp,
     pressure_hpa |-> IF props.seaLevelPressure = None THEN None
                      ELSE Some(RoundDiv(props.seaLevelPressure[1], 10)),
     temp_f       |-> IF props.temperature = None THEN None
                      ELSE Some(RoundDiv(props.temperature[1] * 9 + 1600, 5)),
     dewpoint_f   |-> IF props.dewpoint = None THEN None
                      ELSE Some(RoundDiv(props.dewpoint[1] * 9 + 1600, 5)),
     wind_mph     |-> IF props.windSpeed = None THEN None
                      ELSE Some(RoundDiv(props.windSpeed[1] * 100000, 160934)),
     wind_dir     |-> props.windDirection]

\* The except branch: the newest cached entry marked stale, or {}.
AsosFallback(history) ==
    IF history # <<>>
    THEN SetKey(history[Len(history)], "stale", TRUE)
    ELSE EmptyDict

\* cache: None or the history list of the file; resp: [ok, err, props].
fetch_asos_obs(station_id, cache, resp) ==
    LET history == IF cache = None THEN <<>> ELSE cache[1] IN
    IF resp.ok
    THEN LET obs  == AsosObs(station_id, resp.props)
             hist == AppendTruncate(history, obs)
             tend == Tendency(hist, obs)
         IN  [data |-> SetKey(SetKey(obs, "tendency_hpa", tend.hpa),
                              "tendency_label", tend.label),
              meta |-> [status |-> "ok", error |-> None],
              save |-> Some(hist)]
    ELSE [data |-> AsosFallback(history),
          meta |-> [status |-> "error", error |-> Some(resp.err)],
          save |-> None]

AsosStoredKeys ==
    {"station", "time", "pressure_hpa", "temp_f", "dewpoint_f", "wind_mph", "wind_dir"}

FetchAsos(station_id, resp) ==
    LET r == fetch_asos_obs(station_id, asos_file[station_id], resp) IN
    /\ asos_file' = IF r.save = None THEN asos_file
                    ELSE [asos_file EXCEPT ![station_id] = r.save]
    /\ ret' = [src |-> station_id, data |-> r.data, meta |-> r.meta]
    /\ wrote' = (r.save # None)
    /\ lastGood' = IF r.meta.status = "ok"
                   THEN [lastGood EXCEPT ![station_id] = Some(r.data)] ELSE lastGood
    /\ fetched' = IF r.meta.status = "ok"
                  THEN [fetched EXCEPT ![station_id] =
                            Append(@, [k \in AsosStoredKeys |-> r.data[k]])]
                  ELSE fetched
    /\ UNCHANGED <<pws_file, buoy_file>>
    /\ UNCHANGED frostVars
    /\ UNCHANGED derivedVars
    /\ UNCHANGED omVars
    /\ UNCHANGED raceVars

-----------------------------------------------------------------------------
(* fetch_buoy_44013 *)

\* The observation built from the newest data line; resp holds the columns as
\* gv reads them: None for "MM" or a missing column, else the number in tenths
\* (WDIR and DPD: whole numbers).
BuoyObs(resp) ==
    [time            |-> resp.time,
     wind_dir        |-> resp.WDIR,
     wind_mph        |-> IF resp.WSPD = None THEN None
                         ELSE Some(RoundDiv(resp.WSPD[1] * 2237, 1000)),
     gust_mph        |-> IF resp.GST = None THEN None
                         ELSE Some(RoundDiv(resp.GST[1] * 2237, 1000)),
     wave_ht_ft      |-> IF resp.WVHT = None THEN None
                         ELSE Some(RoundDiv(resp.WVHT[1] * 3281, 1000)),
     wave_period_sec |-> resp.DPD,
     pressure_hpa    |-> resp.PRES,
     air_temp_f      |-> IF resp.ATMP = None THEN None
                         ELSE Some(RoundDiv(resp.ATMP[1] * 9 + 1600, 5)),
     water_temp_f    |-> IF resp.WTMP = None THEN None
                         ELSE Some(RoundDiv(resp.WTMP[1] * 9 + 1600, 5)),
     dewpoint_f      |-> IF resp.DEWP = None THEN None
                         ELSE Some(RoundDiv(resp.DEWP[1] * 9 + 1600, 5)),
     pressure_tend_hpa |-> resp.PTDY]

\* The except branch: the cached dict marked stale, or {}.
BuoyFallback(cached) ==
    IF cached # EmptyDict THEN SetKey(cached, "stale", TRUE) ELSE EmptyDict

\* cache: None or the dict of the file; resp.kind: "error" (the request
\* failed), "short" (fewer than 3 lines) or "data".
fetch_buoy_44013(cache, resp) ==
    LET cached == IF cache = None THEN EmptyDict ELSE cache[1] IN
    IF resp.kind = "data"
    THEN LET obs == BuoyObs(resp)
         IN  [data |-> obs,
              meta |-> [status |-> "ok", error |-> None],
              save |-> Some(obs)]
    ELSE [data |-> BuoyFallback(cached),
          meta |-> [status |-> "error",
                    error |-> Some(IF resp.kind = "short"
                                   THEN "Insufficient buoy data lines"
                                   ELSE resp.err)],
          save |-> None]

FetchBuoy(resp) ==
    LET r == fetch_buoy_44013(buoy_file, resp) IN
    /\ buoy_file' = IF r.save = None THEN buoy_file ELSE r.save
    /\ ret' = [src |-> "buoy", data |-> r.data, meta |-> r.meta]
    /\ wrote' = (r.save # None)
    /\ lastGood' = IF r.meta.status = "ok"
                   THEN [lastGood EXCEPT !["buoy"] = Some(r.data)] ELSE lastGood
    /\ UNCHANGED <<pws_file, asos_file, fetched>>
    /\ UNCHANGED frostVars
    /\ UNCHANGED derivedVars
    /\ UNCHANGED omVars
    /\ UNCHANGED raceVars

-----------------------------------------------------------------------------
(* update_frost_log *)

LOGGED_KEEP == 60

\* season_start: Oct 1 of the current or of the previous year.
SeasonStart(today_str) ==
    LET year == today_str \div 10000
    IN  IF today_str >= year * 10000 + 1001 THEN year * 10000 + 1001
        ELSE (year - 1) * 10000 + 1001

\* The record of a new season.
NewSeasonLog(season_start) ==
    [season_start     |-> season_start,
     freeze_days      |-> 0,
     hard_freeze_days |-> 0,
     severe_days      |-> 0,
     last_freeze      |-> None,
     last_hard        |-> None,
     last_severe      |-> None,
     logged_dates     |-> {}]

\* StartLog adopting the new season_start without resetting the record.
StartLogKeepCounters(file, season_start) ==
    IF file # None /\ file[1] # EmptyDict
    THEN [k \in DOMAIN file[1] \ {"upcoming_freeze_days"} |->
             IF k = "season_start" THEN season_start ELSE file[1][k]]
    ELSE NewSeasonLog(season_start)

\* StartLog starting a new record at every run.
StartLogAlwaysNew(file, season_start) == NewSeasonLog(season_start)

\* The log the run works on: the stored one, or a new one when there is no
\* readable file or its season_start is not this season's.
StartLog(file, season_start) ==
    IF file # None /\ file[1] # EmptyDict /\ file[1].season_start = season_start
    THEN [k \in DOMAIN file[1] \ {"upcoming_freeze_days"} |-> file[1][k]]
    ELSE NewSeasonLog(season_start)

\* Visits skipping the future but not today.
VisitsToday(d, today_str, season_start, logged) ==
    /\ ~(d > today_str)
    /\ ~(d < season_start)
    /\ d \notin logged

\* Whether the loop body gets past its three "continue"s for the date d.
Visits(d, today_str, season_start, logged) ==
    /\ ~(d >= today_str)
    /\ ~(d < season_start)
    /\ d \notin logged

\* Classify with the thresholds excluded.
ClassifyStrict(log, d, t) ==
    IF t < 200
    THEN [log EXCEPT !.severe_days = @ + 1, !.hard_freeze_days = @ + 1,
                     !.freeze_days = @ + 1, !.last_severe = Some(d),
                     !.last_hard = Some(d), !.last_freeze = Some(d)]
    ELSE IF t < 280
    THEN [log EXCEPT !.hard_freeze_days = @ + 1, !.freeze_days = @ + 1,
                     !.last_hard = Some(d), !.last_freeze = Some(d)]
    ELSE IF t < 320
    THEN [log EXCEPT !.freeze_days = @ + 1, !.last_freeze = Some(d)]
    ELSE log

\* Each entry counted in the one band its minimum falls in.
ClassifyOwnBand(log, d, t) ==
    IF t <= 200
    THEN [log EXCEPT !.severe_days = @ + 1, !.last_severe = Some(d)]
    ELSE IF t <= 280
    THEN [log EXCEPT !.hard_freeze_days = @ + 1, !.last_hard = Some(d)]
    ELSE IF t <= 320
    THEN [log EXCEPT !.freeze_days = @ + 1, !.last_freeze = Some(d)]
    ELSE log

\* The counters and last_* dates after an entry (d, t), t in tenths of a degree F.
Classify(log, d, t) ==
    IF t <= 200
    THEN [log EXCEPT !.severe_days = @ + 1, !.hard_freeze_days = @ + 1,
                     !.freeze_days = @ + 1, !.last_severe = Some(d),
                     !.last_hard = Some(d), !.last_freeze = Some(d)]
    ELSE IF t <= 280
    THEN [log EXCEPT !.hard_freeze_days = @ + 1, !.freeze_days = @ + 1,
                     !.last_hard = Some(d), !.last_freeze = Some(d)]
    ELSE IF t <= 320
    THEN [log EXCEPT !.freeze_days = @ + 1, !.last_freeze = Some(d)]
    ELSE log

\* One pass of the loop over the entry e = [d, t]; acc holds the log, the set
\* of logged dates, the entries visited and the dates that incremented a counter.
FoldStep(acc, e, today_str, season_start) ==
    IF ~Visits(e.d, today_str, season_start, acc.logged) THEN acc
    ELSE IF e.t = None THEN [acc EXCEPT !.visited = @ \cup {e}]
    ELSE [log     |-> Classify(acc.log, e.d, e.t[1]),
          logged  |-> acc.logged \cup {e.d},
          visited |-> acc.visited \cup {e},
          bumped  |-> IF e.t[1] <= 320 THEN acc.bumped \cup {e.d} ELSE acc.bumped]

RECURSIVE Fold(_, _, _, _, _)
\* The state of the loop after the first n of the zipped (date, min) entries,
\* from the state acc0.
Fold(acc0, daily, n, today_str, season_start) ==
    IF n = 0 THEN acc0
    ELSE FoldStep(Fold(acc0, daily, n - 1, today_str, season_start), daily[n],
                  today_str, season_start)

\* sorted(list(logged))[-60:]: the 60 latest dates.  logged_dates is a sorted
\* list without duplicates; the model holds it as the set of its elements.
KeepLogged(logged) ==
    IF Cardinality(logged) <= LOGGED_KEEP THEN logged
    ELSE {x \in logged : Cardinality({y \in logged : y > x}) < LOGGED_KEEP}

\* upcoming_freeze of the whole forecast, past dates included.
UpcomingFreezeAll(daily, n, today_str) ==
    LET cold == SelectSeq(daily, LAMBDA e : e.t # None /\ e.t[1] <= 320)
    IN  [i \in 1..Len(cold) |-> [date |-> cold[i].d, min_f |-> cold[i].t[1]]]

RECURSIVE UpcomingFreeze(_, _, _)
\* upcoming_freeze: of the first n entries of daily, those dated today or later
\* with a min of 32 F or less.
UpcomingFreeze(daily, n, today_str) ==
    IF n = 0 THEN <<>>
    ELSE LET e == daily[n]
             before == UpcomingFreeze(daily, n - 1, today_str)
         IN  IF ~(e.d < today_str) /\ e.t # None /\ e.t[1] <= 320
             THEN Append(before, [date |-> e.d, min_f |-> e.t[1]])
             ELSE before

\* The state of the loop after the fold of a run.
FrostFold(file, daily, today_str) ==
    LET season_start == SeasonStart(today_str)
        log == StartLog(file, season_start)
    IN  Fold([log |-> log, logged |-> log.logged_dates, visited |-> {}, bumped |-> {}],
             daily, Len(daily), today_str, season_start)

\* The log as written after the loop: logged_dates cut to the latest 60 and
\* upcoming_freeze_days recomputed.
FinishLog(acc, daily, today_str) ==
    [k \in DOMAIN acc.log \cup {"upcoming_freeze_days"} |->
        IF k = "logged_dates" THEN KeepLogged(acc.logged)
        ELSE IF k = "upcoming_freeze_days"
        THEN UpcomingFreeze(daily, Len(daily), today_str)
        ELSE acc.log[k]]

\* The log a run writes and returns; file: None or the stored log, daily: the
\* zipped (date, min) entries of the forecast, today_str: the UTC date.
update_frost_log(file, daily, today_str) ==
    FinishLog(FrostFold(file, daily, today_str), daily, today_str)

\* A run of update_frost_log on the forecast daily.
UpdateFrostLog(daily) ==
    LET acc == FrostFold(frost_file, daily, today)
    IN  /\ frost_file' = Some(FinishLog(acc, daily, today))
        /\ lastOp' = "run"
        /\ folded' = acc.visited
        /\ counted' = counted \cup acc.bumped
        /\ daily_data' = daily
        /\ UNCHANGED today
        /\ UNCHANGED cacheVars
        /\ UNCHANGED derivedVars
        /\ UNCHANGED omVars
        /\ UNCHANGED raceVars

\* The clock passes midnight, once or many times, between two runs.
Tick(d) ==
    /\ d > today
    /\ today' = d
    /\ lastOp' = "tick"
    /\ UNCHANGED <<frost_file, folded, counted, daily_data>>
    /\ UNCHANGED cacheVars
    /\ UNCHANGED derivedVars
    /\ UNCHANGED omVars
    /\ UNCHANGED raceVars

-----------------------------------------------------------------------------
(* process_data: the model pressure trend *)

\* The label of the 3-hour model trend, given in hundredths of a hPa.
PressureTrendLabel(trend_3h) ==
    IF trend_3h >= 300 THEN "Rising fast"
    ELSE IF trend_3h >= 60 THEN "Rising"
    ELSE IF trend_3h <= -300 THEN "Falling fast"
    ELSE IF trend_3h <= -60 THEN "Falling"
    ELSE "Steady"

\* The pressure keys of derived; p is the sliced hourly pressure list, each
\* entry None or a pressure in hundredths of a hPa.
PressureTrend(p) ==
    IF Len(p) >= 4 /\ \A i \in 1..4 : p[i] # None
    THEN LET trend_3h == p[4][1] - p[1][1]
         IN  [pressure_trend        |-> PressureTrendLabel(trend_3h),
              pressure_trend_hpa_3h |-> RoundDiv(trend_3h, 10)]
    ELSE EmptyDict

\* d.get(key): None when the key is absent.
Get(d, key) == IF key \in DOMAIN d THEN d[key] ELSE None

\* {**a, **b}
Merge(a, b) ==
    [k \in DOMAIN a \cup DOMAIN b |-> IF k \in DOMAIN b THEN b[k] ELSE a[k]]

\* min() of a non-empty set of numbers.
MinOf(S) == CHOOSE x \in S : \A y \in S : x <= y

-----------------------------------------------------------------------------
(* process_data: fog probability *)

FOG_WINDOW == 12

\* FogSlot with a missing humidity taken as saturated.
FogSlotNullHumid(temp, dew, rh, ws, i) ==
    LET t == IF temp[i] # None THEN temp[i][1] ELSE 9990
        d == IF dew[i] # None THEN dew[i][1] ELSE -9990
        h == IF rh[i] # None THEN rh[i][1] ELSE 100
        w == IF ws[i] # None THEN ws[i][1] ELSE 9990
    IN  (t - d) <= 20 /\ h >= 93 /\ w <= 100

\* Whether slot i counts as a fog hour; temperatures in tenths of a degree F,
\* humidity in percent, wind in tenths of a mph; a null value is replaced by
\* 999, -999, 0 and 999.
FogSlot(temp, dew, rh, ws, i) ==
    LET t == IF temp[i] # None THEN temp[i][1] ELSE 9990
        d == IF dew[i] # None THEN dew[i][1] ELSE -9990
        h == IF rh[i] # None THEN rh[i][1] ELSE 0
        w == IF ws[i] # None THEN ws[i][1] ELSE 9990
    IN  (t - d) <= 20 /\ h >= 93 /\ w <= 100

RECURSIVE FogHours(_, _, _, _, _)
\* fog_hours after the first n slots.
FogHours(temp, dew, rh, ws, n) ==
    IF n = 0 THEN 0
    ELSE FogHours(temp, dew, rh, ws, n - 1)
         + (IF FogSlot(temp, dew, rh, ws, n) THEN 1 ELSE 0)

\* The label of a fog percentage.
FogLabel(fog_pct) ==
    IF fog_pct >= 75 THEN "Likely"
    ELSE IF fog_pct >= 40 THEN "Possible"
    ELSE IF fog_pct >= 15 THEN "Low chance"
    ELSE "Unlikely"

\* The fog keys of derived.
Fog(temp, dew, rh, ws) ==
    LET fog_window == MinOf({FOG_WINDOW, Len(temp), Len(dew), Len(rh), Len(ws)})
        fog_hours  == FogHours(temp, dew, rh, ws, fog_window)
    IN  IF fog_window > 0
        THEN LET fog_pct == RoundDiv(fog_hours * 100, fog_window)
             IN  [fog_probability  |-> fog_pct,
                  fog_label        |-> FogLabel(fog_pct),
                  fog_hours_in_12h |-> fog_hours]
        ELSE EmptyDict

-----------------------------------------------------------------------------
(* process_data: the pressure alarm *)

\* The alarm keys of derived; derived0 is the derived block so far, tendencies
\* are in tenths of a hPa.
PressureAlarm(wd, derived0) ==
    LET kbos_tend  == Get(wd.kbos, "tendency_hpa")
        buoy_tend  == Get(wd.buoy_44013, "pressure_tend_hpa")
        model_tend == IF "pressure_trend_hpa_3h" \in DOMAIN derived0
                      THEN Some(derived0.pressure_trend_hpa_3h) ELSE None
        best == IF kbos_tend # None THEN <<kbos_tend[1], "KBOS">>
                ELSE IF buoy_tend # None THEN <<buoy_tend[1], "Buoy">>
                ELSE IF model_tend # None THEN <<model_tend[1], "model">>
                ELSE <<>>
    IN  IF best # <<>>
        THEN LET alarm == IF best[1] <= -30 THEN Some("falling")
                          ELSE IF best[1] >= 30 THEN Some("rising")
                          ELSE None
             IN  [best_pressure_tend     |-> best[1],
                  best_pressure_tend_src |-> best[2],
                  pressure_alarm         |-> alarm,
                  pressure_alarm_label   |->
                      IF alarm = None THEN None
                      ELSE Some(<<alarm[1], best[1], best[2]>>)]
        ELSE EmptyDict

-----------------------------------------------------------------------------
(* process_data: the wind risk model *)

\* The exposure table with its last sector ending at 359.
WindExposureTableShort ==
    << <<0, 20, 100>>, <<20, 60, 90>>, <<60, 90, 70>>, <<90, 130, 50>>,
       <<130, 165, 20>>, <<165, 200, 10>>, <<200, 255, 5>>, <<255, 285, 30>>,
       <<285, 315, 70>>, <<315, 359, 95>> >>

\* (min_bearing_inclusive, max_bearing_exclusive, exposure_factor); factors in
\* hundredths.
WIND_EXPOSURE_TABLE ==
    << <<0, 20, 100>>, <<20, 60, 90>>, <<60, 90, 70>>, <<90, 130, 50>>,
       <<130, 165, 20>>, <<165, 200, 10>>, <<200, 255, 5>>, <<255, 285, 30>>,
       <<285, 315, 70>>, <<315, 360, 95>> >>

WORRY_NOTICEABLE == 5

WORRY_NOTABLE == 12

WORRY_SIGNIFICANT == 20

WORRY_SEVERE == 30

PEAK_WINDOW_HOURS == 12

\* Whether the table row matches the bearing d, a row with min > max wrapping
\* around north.
SectorMatches(row, d) ==
    IF row[1] <= row[2] THEN row[1] <= d /\ d < row[2]
    ELSE d >= row[1] \/ d < row[2]

\* The first row of the table that matches int(deg) % 360, 0 when none does.
SectorIndex(deg) ==
    LET d == deg % 360
        hits == {i \in DOMAIN WIND_EXPOSURE_TABLE :
                    SectorMatches(WIND_EXPOSURE_TABLE[i], d)}
    IN  IF hits = {} THEN 0 ELSE MinOf(hits)

\* The exposure factor in hundredths; 0.5 when no row matches.
get_exposure_factor(deg) ==
    IF SectorIndex(deg) = 0 THEN 50
    ELSE WIND_EXPOSURE_TABLE[SectorIndex(deg)][3]

\* Pow15 with the powers of 0.9 and 0.95 exchanged.
Pow15Exchanged(exp_factor) ==
    CASE exp_factor = 100 -> 1000000
      [] exp_factor = 95  -> 853815
      [] exp_factor = 90  -> 925945
      [] exp_factor = 70  -> 585662
      [] exp_factor = 50  -> 353553
      [] exp_factor = 30  -> 164317
      [] exp_factor = 20  -> 89443
      [] exp_factor = 10  -> 31623
      [] exp_factor = 5   -> 11180

\* exp_factor ** 1.5 in millionths, for the factors of the table.
Pow15(exp_factor) ==
    CASE exp_factor = 100 -> 1000000
      [] exp_factor = 95  -> 925945
      [] exp_factor = 90  -> 853815
      [] exp_factor = 70  -> 585662
      [] exp_factor = 50  -> 353553
      [] exp_factor = 30  -> 164317
      [] exp_factor = 20  -> 89443
      [] exp_factor = 10  -> 31623
      [] exp_factor = 5   -> 11180

\* round(speed * exp_factor ** 1.5, 2) in hundredths; speed in tenths of a mph.
worry_score(speed, exp_factor) == RoundDiv(speed * Pow15(exp_factor), 100000)

\* worry_level with the thresholds excluded.
worry_level_above(score) ==
    IF score > 3000 THEN "SEVERE"
    ELSE IF score > 2000 THEN "SIGNIFICANT"
    ELSE IF score > 1200 THEN "NOTABLE"
    ELSE IF score > 500 THEN "NOTICEABLE"
    ELSE "LOW"

\* The level of a score given in hundredths.
worry_level(score) ==
    IF score >= WORRY_SEVERE * 100 THEN "SEVERE"
    ELSE IF score >= WORRY_SIGNIFICANT * 100 THEN "SIGNIFICANT"
    ELSE IF score >= WORRY_NOTABLE * 100 THEN "NOTABLE"
    ELSE IF score >= WORRY_NOTICEABLE * 100 THEN "NOTICEABLE"
    ELSE "LOW"

RECURSIVE PeakLoop(_, _, _)
\* best_val, best_dir, best_i after the first n passes of the loop of find_peak;
\* best_i is 0 while there is none, best_val starts at -1.0.
PeakLoop(values, dirs, n) ==
    IF n = 0 THEN [val |-> -10, dir |-> None, i |-> 0]
    ELSE LET best == PeakLoop(values, dirs, n - 1)
             v == IF n <= Len(values) THEN values[n] ELSE None
             d == IF n <= Len(dirs) THEN dirs[n] ELSE None
         IN  IF v = None \/ d = None THEN best
             ELSE IF v[1] > best.val THEN [val |-> v[1], dir |-> d, i |-> n]
             ELSE best

\* (value, direction, time) of the peak of the first n slots, all None when no
\* slot has both a value and a direction.
find_peak(values, dirs, times, n) ==
    LET best == PeakLoop(values, dirs, n)
    IN  IF best.i = 0 THEN [val |-> None, dir |-> None, time |-> None]
        ELSE [val |-> Some(best.val), dir |-> best.dir,
              time |-> IF best.i <= Len(times) THEN times[best.i] ELSE None]

\* The peak, or the current-conditions snapshot when the hourly scan found none.
PeakOrCurrent(peak, current, key) ==
    IF peak.val = None
    THEN [val |-> Get(current, key), dir |-> Get(current, "wind_direction"),
          time |-> None]
    ELSE peak

\* A sub-score of wind_risk, None when the value or the direction is missing.
SubScore(peak) ==
    IF peak.val # None /\ peak.dir # None
    THEN LET deg == peak.dir[1] % 360
             ef  == get_exposure_factor(deg)
             ws  == worry_score(peak.val[1], ef)
         IN  Some([peak_mph        |-> peak.val[1],
                   direction_deg   |-> deg,
                   exposure_factor |-> ef,
                   worry_score     |-> ws,
                   level           |-> worry_level(ws),
                   peak_time       |-> peak.time])
    ELSE None

\* The gust and sustained peaks of the document wd.
WindPeaks(wd) ==
    LET hourly_gusts  == wd.hourly.wind_gusts
        hourly_speeds == wd.hourly.wind_speed
        hourly_dirs   == wd.hourly.wind_direction
        lookahead == MinOf({PEAK_WINDOW_HOURS, Len(hourly_gusts), Len(hourly_dirs)})
    IN  [gust |-> PeakOrCurrent(find_peak(hourly_gusts, hourly_dirs, wd.hourly.times,
                                          lookahead), wd.current, "wind_gusts"),
         sustained |-> PeakOrCurrent(find_peak(hourly_speeds, hourly_dirs,
                                               wd.hourly.times, lookahead),
                                     wd.current, "wind_speed")]

\* The wind_risk block: None when it has no sub-score.
WindRisk(wd) ==
    LET gust == SubScore(WindPeaks(wd).gust)
        sus  == SubScore(WindPeaks(wd).sustained)
        keys == {"window_hours"} \cup (IF gust # None THEN {"gust"} ELSE {})
                                 \cup (IF sus # None THEN {"sustained"} ELSE {})
    IN  IF gust = None /\ sus = None THEN None
        ELSE Some([k \in keys |->
                       IF k = "window_hours" THEN PEAK_WINDOW_HOURS
                       ELSE IF k = "gust" THEN gust[1] ELSE sus[1]])

\* derived["wind_peak_time"], set when there is a gust sub-score with a time.
WindPeakTime(wd) ==
    LET gust == SubScore(WindPeaks(wd).gust)
    IN  IF gust # None /\ gust[1].peak_time # None
        THEN [wind_peak_time |-> gust[1].peak_time[1]]
        ELSE EmptyDict

-----------------------------------------------------------------------------
(* process_data *)

HOURLY_SLOTS == 48

\* arr[i:j] of Python for 0 <= i <= j.
Slice(arr, i, j) ==
    LET hi == IF j < Len(arr) THEN j ELSE Len(arr)
    IN  IF hi <= i THEN <<>> ELSE [k \in 1..(hi - i) |-> arr[i + k]]

FirstFutureFrom(times, now_local, i) ==
    LET later == {k \in i..Len(times) : times[k][1] >= now_local}
    IN  IF later = {} THEN 0 ELSE MinOf(later) - 1

\* current_idx: the 0-based index of the first slot at or after now_local, 0
\* when there is none, and 0 when a time does not parse (None here).
CurrentIdx(times, now_local) ==
    IF \E k \in 1..Len(times) : times[k] = None THEN 0
    ELSE FirstFutureFrom(times, now_local, 1)

\* sl(key) for every key of the hourly block that the derived metrics read.
HourlyBlock(hourly, now_local) ==
    LET current_idx == CurrentIdx(hourly.time, now_local)
        end_idx     == current_idx + HOURLY_SLOTS
        sl(arr)     == Slice(arr, current_idx, end_idx)
    IN  [times          |-> sl(hourly.time),
         temperature    |-> sl(hourly.temperature_2m),
         humidity       |-> sl(hourly.relative_humidity_2m),
         dew_point      |-> sl(hourly.dew_point_2m),
         wind_speed     |-> sl(hourly.wind_speed_10m),
         wind_gusts     |-> sl(hourly.wind_gusts_10m),
         wind_direction |-> sl(hourly.wind_direction_10m),
         pressure       |-> sl(hourly.pressure_msl),
         temp_850hpa    |-> sl(hourly.temperature_850hPa),
         height_850hpa  |-> sl(hourly.geopotential_height_850hPa)]

\* (hourly_data or {}).get("hourly", {}) or {}: without hourly data every
\* series is the empty list.
NoHourly ==
    [time |-> <<>>, temperature_2m |-> <<>>, relative_humidity_2m |-> <<>>,
     dew_point_2m |-> <<>>, wind_speed_10m |-> <<>>, wind_gusts_10m |-> <<>>,
     wind_direction_10m |-> <<>>, pressure_msl |-> <<>>,
     temperature_850hPa |-> <<>>, geopotential_height_850hPa |-> <<>>]

\* The current block.  wet_bulb stands for the value of Stull's formula on
\* the current temperature and humidity, which is None exactly when one of
\* the two is.
CurrentBlock(current, wet_bulb) ==
    [temperature    |-> current.temperature_2m,
     humidity       |-> current.relative_humidity_2m,
     wind_speed     |-> current.wind_speed_10m,
     wind_direction |-> current.wind_direction_10m,
     wind_gusts     |-> current.wind_gusts_10m,
     wet_bulb       |-> IF current.temperature_2m = None
                           \/ current.relative_humidity_2m = None
                        THEN None ELSE wet_bulb]

\* The daily block, of a forecast given as the list of its [date, min] days.
DailyBlock(daily) ==
    [dates           |-> [i \in 1..Len(daily) |-> daily[i].d],
     temperature_min |-> [i \in 1..Len(daily) |-> daily[i].t]]

PwsPlaceholder ==
    [station |-> PWS_STATION, name |-> "Castle Hill", temperature |-> None,
     stale |-> TRUE]

\* The document as it stands when the derived metrics are computed: args are
\* the arguments of process_data, with the local time (now_local, hour) and
\* the wet bulb value the run sees.
Assemble(args) ==
    LET has_current == args.current_data # None
        hourly == IF args.hourly_data = None THEN NoHourly ELSE args.hourly_data[1]
        daily  == IF args.daily_data = None THEN <<>> ELSE args.daily_data[1]
    IN  [has_current |-> has_current,
         current     |-> IF has_current
                         THEN CurrentBlock(args.current_data[1], args.wet_bulb)
                         ELSE EmptyDict,
         hourly      |-> IF has_current THEN HourlyBlock(hourly, args.now_local)
                         ELSE EmptyDict,
         daily       |-> IF has_current THEN DailyBlock(daily) ELSE EmptyDict,
         kbos        |-> IF args.kbos = None THEN EmptyDict ELSE args.kbos,
         kbvy        |-> IF args.kbvy = None THEN EmptyDict ELSE args.kbvy,
         buoy_44013  |-> IF args.buoy = None THEN EmptyDict ELSE args.buoy,
         pws         |-> IF args.pws = None THEN PwsPlaceholder ELSE args.pws,
         hour        |-> args.hour]

\* weather_data["hyperlocal"], in tenths of a degree; None when it is not set.
Hyperlocal(wd) ==
    LET model_t == wd.current.temperature
        pws_t   == Get(wd.pws, "temperature")
    IN  IF model_t # None /\ pws_t # None
        THEN LET bias == pws_t[1] - model_t[1]
             IN  Some([bias_temp |-> bias, corrected_temp |-> model_t[1] + bias])
        ELSE None

\* The 850 hPa column type; temperatures in tenths of a degree F.
Column850(wd) ==
    LET t850_arr == wd.hourly.temp_850hpa
        cur_t850 == IF Len(t850_arr) > 0 THEN t850_arr[1] ELSE None
        cur_wb   == wd.current.wet_bulb
    IN  IF cur_t850 # None
        THEN LET col == IF cur_t850[1] >= 320 THEN <<"Rain", "High">>
                        ELSE IF cur_t850[1] >= 280
                             THEN IF cur_wb # None /\ cur_wb[1] <= 320
                                  THEN <<"Snow likely", "Moderate">>
                                  ELSE <<"Mixed", "Low">>
                        ELSE IF cur_t850[1] >= 200 THEN <<"Snow", "High">>
                        ELSE <<"Heavy snow", "High">>
             IN  [col_precip_type |-> col[1], col_precip_conf |-> col[2],
                  temp_850hpa_now |-> cur_t850[1]]
        ELSE EmptyDict

\* The tendency computed whenever the two heights it subtracts are there.
TroughEnds(wd) ==
    LET z850_arr == wd.hourly.height_850hpa
    IN  IF Len(z850_arr) >= 7 /\ z850_arr[1] # None /\ z850_arr[7] # None
        THEN LET z_tend_6h == RoundDiv(z850_arr[7][1] - z850_arr[1][1], 10)
             IN  [height_850hpa_tend_6h |-> z_tend_6h,
                  trough_signal |-> IF z_tend_6h <= -30 THEN "Approaching"
                                    ELSE IF z_tend_6h >= 30 THEN "Ridging"
                                    ELSE "Steady"]
        ELSE EmptyDict

\* The 6 h tendency of the 850 hPa height; heights in tenths of a metre, the
\* tendency in whole metres.
Trough(wd) ==
    LET z850_arr == wd.hourly.height_850hpa
    IN  IF Len(z850_arr) >= 7 /\ \A i \in 1..7 : z850_arr[i] # None
        THEN LET z_tend_6h == RoundDiv(z850_arr[7][1] - z850_arr[1][1], 10)
             IN  [height_850hpa_tend_6h |-> z_tend_6h,
                  trough_signal |-> IF z_tend_6h <= -30 THEN "Approaching"
                                    ELSE IF z_tend_6h >= 30 THEN "Ridging"
                                    ELSE "Steady"]
        ELSE EmptyDict

\* The rule order of the detector over the daytime test alone.
SeaBreezeRuleAnyHour(land_sea_diff, hour, cur_ws, cur_wd) ==
    LET is_nighttime == hour >= 21 \/ hour <= 5
        light_wind   == cur_ws # None /\ cur_ws[1] < 120
        calm_wind    == cur_ws # None /\ cur_ws[1] < 60
        onshore      == cur_wd # None /\ (cur_wd[1] <= 135 \/ cur_wd[1] >= 315)
    IN  IF land_sea_diff >= 80 /\ calm_wind THEN <<"Sea breeze likely", Some("High")>>
        ELSE IF land_sea_diff >= 50 /\ light_wind
             THEN <<"Sea breeze possible", Some("Moderate")>>
        ELSE IF land_sea_diff >= 30 /\ light_wind /\ onshore
             THEN <<"Sea breeze developing", Some("Low")>>
        ELSE IF land_sea_diff <= -50 /\ is_nighttime /\ calm_wind
             THEN <<"Land breeze", Some("Moderate")>>
        ELSE <<"No sea breeze", None>>

\* The label and confidence of the detector: temperatures and speeds in
\* tenths, hour the local hour of the day.
SeaBreezeRule(land_sea_diff, hour, cur_ws, cur_wd) ==
    LET is_daytime   == 9 <= hour /\ hour <= 19
        is_nighttime == hour >= 21 \/ hour <= 5
        light_wind   == cur_ws # None /\ cur_ws[1] < 120
        calm_wind    == cur_ws # None /\ cur_ws[1] < 60
        onshore      == cur_wd # None /\ (cur_wd[1] <= 135 \/ cur_wd[1] >= 315)
    IN  IF land_sea_diff >= 80 /\ is_daytime /\ calm_wind
        THEN <<"Sea breeze likely", Some("High")>>
        ELSE IF land_sea_diff >= 50 /\ is_daytime /\ light_wind
             THEN <<"Sea breeze possible", Some("Moderate")>>
        ELSE IF land_sea_diff >= 30 /\ is_daytime /\ light_wind /\ onshore
             THEN <<"Sea breeze developing", Some("Low")>>
        ELSE IF land_sea_diff <= -50 /\ is_nighttime /\ calm_wind
             THEN <<"Land breeze", Some("Moderate")>>
        ELSE <<"No sea breeze", None>>

SeaBreeze(wd) ==
    LET pws_t   == Get(wd.pws, "temperature")
        buoy_wt == Get(wd.buoy_44013, "water_temp_f")
        cur_ws  == wd.current.wind_speed
        cur_wd  == wd.current.wind_direction
    IN  IF pws_t # None /\ buoy_wt # None
        THEN LET land_sea_diff == pws_t[1] - buoy_wt[1]
                 sb == SeaBreezeRule(land_sea_diff, wd.hour, cur_ws, cur_wd)
             IN  [sea_breeze_label |-> sb[1], sea_breeze_conf |-> sb[2],
                  land_sea_diff_f  |-> land_sea_diff,
                  land_temp_f      |-> pws_t[1],
                  water_temp_f     |-> buoy_wt[1]]
        ELSE EmptyDict

\* The derived block of the document wd: the model pressure trend, the fog
\* probability, the 850 hPa analysis, the sea breeze, the pressure alarm and
\* the time of the gust peak.
Derived(wd) ==
    LET trend == PressureTrend(wd.hourly.pressure)
        fog   == Fog(wd.hourly.temperature, wd.hourly.dew_point,
                     wd.hourly.humidity, wd.hourly.wind_speed)
        upper == Merge(Column850(wd), Trough(wd))
        so_far == Merge(Merge(Merge(trend, fog), upper), SeaBreeze(wd))
    IN  Merge(Merge(so_far, PressureAlarm(wd, so_far)), WindPeakTime(wd))

\* The keys the document is created with.
BaseKeys ==
    {"schema_version", "generated_at", "location", "sources", "alerts", "current",
     "hourly", "daily", "tides", "tide_curve", "kbos", "kbvy", "buoy_44013",
     "frost_log", "nws_forecast", "pws"}

\* The returned document: the sections the derived metrics are computed from
\* and the three sections that are set only when there is something to set (d:
\* the derived dict, w: None or the wind risk block); the remaining sections
\* are kept by name.
Document(wd, d, w) ==
    LET h == IF wd.has_current THEN Hyperlocal(wd) ELSE None
        keys == BaseKeys \cup (IF d # EmptyDict THEN {"derived"} ELSE {})
                         \cup (IF w # None THEN {"wind_risk"} ELSE {})
                         \cup (IF h # None THEN {"hyperlocal"} ELSE {})
    IN  [k \in keys |->
            IF k = "current" THEN wd.current
            ELSE IF k = "hourly" THEN wd.hourly
            ELSE IF k = "daily" THEN wd.daily
            ELSE IF k = "kbos" THEN wd.kbos
            ELSE IF k = "kbvy" THEN wd.kbvy
            ELSE IF k = "buoy_44013" THEN wd.buoy_44013
            ELSE IF k = "pws" THEN wd.pws
            ELSE IF k = "derived" THEN d
            ELSE IF k = "wind_risk" THEN w[1]
            ELSE IF k = "hyperlocal" THEN h[1]
            ELSE k]

\* process_data on its arguments.  Without current data the hourly and daily
\* blocks stay empty and nothing is derived.
Processed(args) ==
    LET wd == Assemble(args)
        d  == IF wd.has_current THEN Derived(wd) ELSE EmptyDict
        w  == IF wd.has_current THEN WindRisk(wd) ELSE None
    IN  /\ inputs' = args
        /\ weather_data' = wd
        /\ hourly_p' = IF wd.has_current THEN wd.hourly.pressure ELSE <<>>
        /\ derived' = d
        /\ wind_risk' = w
        /\ document' = Document(wd, d, w)

ProcessData(args) ==
    /\ Processed(args)
    /\ UNCHANGED cacheVars
    /\ UNCHANGED frostVars
    /\ UNCHANGED omVars
    /\ UNCHANGED raceVars

-----------------------------------------------------------------------------
(* main *)

\* What the services other than KBOS and the buoy answer in the runs of main
\* that are modelled: the current conditions arrive without a value, every
\* other request fails.
CurrentAnswer ==
    [kind |-> "ok", err |-> "",
     data |-> [temperature_2m |-> None, relative_humidity_2m |-> None,
               wind_speed_10m |-> None, wind_gusts_10m |-> None,
               wind_direction_10m |-> None]]

Down == [kind |-> "http", err |-> "ConnectionError", data |-> 0]

PwsDown == [ok |-> FALSE, err |-> "ConnectionError", temp |-> None]

AsosDown == [ok |-> FALSE, err |-> "ConnectionError", props |-> EmptyDict]

\* One invocation of the collector at the local time now_local, hour o'clock:
\* the fetchers in their order, update_frost_log and process_data.  kbos_resp
\* and buoy_resp are the answers of the two services this run depends on.
Main(kbos_resp, buoy_resp, now, now_local, hour) ==
    LET cur   == fetch_current_gfs(CurrentAnswer)
        hrly  == fetch_hourly_hrrr(Down, Down)
        dly   == fetch_daily_ecmwf(Down, Down)
        pws   == fetch_pws_current(pws_file, PwsDown, now)
        kbos  == fetch_asos_obs("KBOS", asos_file["KBOS"], kbos_resp)
        kbvy  == fetch_asos_obs("KBVY", asos_file["KBVY"], AsosDown)
        buoy  == fetch_buoy_44013(buoy_file, buoy_resp)
        acc   == FrostFold(frost_file, <<>>, today)
    IN  /\ requested' = dly.requests
        /\ om_ret' = [data |-> dly.data, meta |-> dly.meta]
        /\ pws_file' = IF pws.save = None THEN pws_file ELSE pws.save
        /\ asos_file' = [s \in Stations |->
                            IF s = "KBOS" /\ kbos.save # None THEN kbos.save
                            ELSE IF s = "KBVY" /\ kbvy.save # None THEN kbvy.save
                            ELSE asos_file[s]]
        /\ buoy_file' = IF buoy.save = None THEN buoy_file ELSE buoy.save
        /\ ret' = [src |-> "buoy", data |-> buoy.data, meta |-> buoy.meta]
        /\ wrote' = (buoy.save # None)
        /\ lastGood' = [s \in Sources |->
                           IF s = "KBOS" /\ kbos.meta.status = "ok" THEN Some(kbos.data)
                           ELSE IF s = "buoy" /\ buoy.meta.status = "ok"
                                THEN Some(buoy.data)
                           ELSE lastGood[s]]
        /\ fetched' = IF kbos.meta.status = "ok"
                      THEN [fetched EXCEPT !["KBOS"] =
                                Append(@, [k \in AsosStoredKeys |-> kbos.data[k]])]
                      ELSE fetched
        /\ frost_file' = Some(FinishLog(acc, <<>>, today))
        /\ lastOp' = "run"
        /\ folded' = acc.visited
        /\ counted' = counted \cup acc.bumped
        /\ daily_data' = <<>>
        /\ UNCHANGED today
        /\ Processed([current_data |-> cur.data, hourly_data |-> hrly.data,
                      daily_data |-> dly.data, pws |-> pws.data, kbos |-> kbos.data,
                      kbvy |-> kbvy.data, buoy |-> buoy.data, wet_bulb |-> None,
                      now_local |-> now_local, hour |-> hour])
        /\ UNCHANGED raceVars

-----------------------------------------------------------------------------
(* Invocations that overlap *)

\* fetch_asos_obs up to the end of its read of the history file.
ReadAsos(p, station_id) ==
    /\ reading[p] = Idle
    /\ reading' = [reading EXCEPT ![p] = [pc |-> "asos", station |-> station_id,
                                            copy |-> asos_file[station_id]]]
    /\ UNCHANGED cacheVars
    /\ UNCHANGED frostVars
    /\ UNCHANGED derivedVars
    /\ UNCHANGED omVars

\* The rest of fetch_asos_obs: the request, and the write of the history
\* that was read with the new observation appended.
WriteAsos(p, resp) ==
    /\ reading[p].pc = "asos"
    /\ LET station_id == reading[p].station
           r == fetch_asos_obs(station_id, reading[p].copy, resp)
       IN  /\ asos_file' = IF r.save = None THEN asos_file
                           ELSE [asos_file EXCEPT ![station_id] = r.save]
           /\ ret' = [src |-> station_id, data |-> r.data, meta |-> r.meta]
           /\ wrote' = (r.save # None)
           /\ lastGood' = IF r.meta.status = "ok"
                          THEN [lastGood EXCEPT ![station_id] = Some(r.data)]
                          ELSE lastGood
           /\ fetched' = IF r.meta.status = "ok"
                         THEN [fetched EXCEPT ![station_id] =
                                   Append(@, [k \in AsosStoredKeys |-> r.data[k]])]
                         ELSE fetched
    /\ reading' = [reading EXCEPT ![p] = Idle]
    /\ UNCHANGED <<pws_file, buoy_file>>
    /\ UNCHANGED frostVars
    /\ UNCHANGED derivedVars
    /\ UNCHANGED omVars

\* update_frost_log up to the end of its read of the log file.
ReadFrost(p) ==
    /\ reading[p] = Idle
    /\ reading' = [reading EXCEPT ![p] = [pc |-> "frost", copy |-> frost_file]]
    /\ UNCHANGED cacheVars
    /\ UNCHANGED frostVars
    /\ UNCHANGED derivedVars
    /\ UNCHANGED omVars

\* The rest of update_frost_log: the fold over the forecast, from the log
\* that was read, and the write of the result.
WriteFrost(p, daily) ==
    /\ reading[p].pc = "frost"
    /\ LET acc == FrostFold(reading[p].copy, daily, today)
       IN  /\ frost_file' = Some(FinishLog(acc, daily, today))
           /\ lastOp' = "run"
           /\ folded' = acc.visited
           /\ counted' = counted \cup acc.bumped
           /\ daily_data' = daily
    /\ reading' = [reading EXCEPT ![p] = Idle]
    /\ UNCHANGED today
    /\ UNCHANGED cacheVars
    /\ UNCHANGED derivedVars
    /\ UNCHANGED omVars

-----------------------------------------------------------------------------
(* The answers of the upstream services the fetchers are run against *)

MaxTendencyFetched == 3

MaxCacheFetched == 2

MaxFetched == 7

Clock == {"2024-10-02T08:00:00", "2024-10-02T08:15:00"}

PwsResps ==
    {[ok |-> FALSE, err |-> "HTTPError 503", temp |-> None],
     [ok |-> TRUE,  err |-> "", temp |-> None],
     [ok |-> TRUE,  err |-> "", temp |-> Some(412)],
     [ok |-> TRUE,  err |-> "", temp |-> Some(385)]}

AsosProps(ts, pa, tc) ==
    [timestamp |-> ts, seaLevelPressure |-> pa, temperature |-> tc,
     dewpoint |-> Some(72), windSpeed |-> Some(148), windDirection |-> Some(310)]

AsosFailure == [ok |-> FALSE, err |-> "ReadTimeout", props |-> EmptyDict]

AsosOk(props) == [ok |-> TRUE, err |-> "", props |-> props]

\* The answers of the cache runs: a failure, a full and a partial observation.
CacheAsosResps ==
    {AsosFailure,
     AsosOk(AsosProps("2024-10-02T12:54:00+00:00", Some(101320), Some(122))),
     AsosOk(AsosProps("2024-10-02T13:54:00+00:00", None, None))}

\* The answers of the history runs: a failure, and observations whose
\* pressure is missing, 1010.0 hPa or 1013.0 hPa.
AsosResps ==
    {AsosFailure} \cup
    {AsosOk(AsosProps("2024-10-02T12:54:00+00:00", pa, Some(122))) :
        pa \in {None, Some(101000), Some(101300)}}

\* The answers of the tendency runs: a failure, and observations whose
\* pressures differ by 0.5, 0.6, 2.4, 2.9, 3.0 and 3.5 hPa, or are missing.
TendencyAsosResps ==
    {AsosFailure} \cup
    {AsosOk(AsosProps("2024-10-02T12:54:00+00:00", pa, Some(122))) :
        pa \in {None, Some(101000), Some(101060), Some(101300), Some(101350)}}

BuoyData(ts, wtmp, ptdy) ==
    [kind |-> "data", err |-> "", time |-> ts, WDIR |-> Some(300), WSPD |-> Some(62),
     GST |-> Some(81), WVHT |-> Some(7), DPD |-> None, PRES |-> Some(10132),
     ATMP |-> Some(114), WTMP |-> wtmp, DEWP |-> None, PTDY |-> ptdy]

BuoyNoData(kind) ==
    [kind |-> kind, err |-> "ConnectionError", time |-> "", WDIR |-> None,
     WSPD |-> None, GST |-> None, WVHT |-> None, DPD |-> None, PRES |-> None,
     ATMP |-> None, WTMP |-> None, DEWP |-> None, PTDY |-> None]

BuoyResps ==
    {BuoyNoData("error"), BuoyNoData("short"),
     BuoyData("2024-10-02T12:50Z", Some(141), Some(-12)),
     BuoyData("2024-10-02T13:50Z", None, None)}

-----------------------------------------------------------------------------
\* A document without hourly slots, current values or station observations.
EmptyDoc ==
    [has_current |-> TRUE,
     hourly  |-> [times |-> <<>>, pressure |-> <<>>, temperature |-> <<>>,
                  dew_point |-> <<>>, humidity |-> <<>>, wind_speed |-> <<>>,
                  wind_gusts |-> <<>>, wind_direction |-> <<>>,
                  temp_850hpa |-> <<>>, height_850hpa |-> <<>>],
     current |-> [temperature |-> None, humidity |-> None, wind_speed |-> None,
                  wind_gusts |-> None, wind_direction |-> None, wet_bulb |-> None],
     daily |-> [dates |-> <<>>, temperature_min |-> <<>>],
     kbos |-> EmptyDict, kbvy |-> EmptyDict, buoy_44013 |-> EmptyDict,
     pws |-> PwsPlaceholder, hour |-> 12]

\* The arguments from which process_data assembles the document wd, at a
\* time that is not after its first slot.
Args(wd) ==
    [current_data |-> Some([temperature_2m       |-> wd.current.temperature,
                            relative_humidity_2m |-> wd.current.humidity,
                            wind_speed_10m       |-> wd.current.wind_speed,
                            wind_gusts_10m       |-> wd.current.wind_gusts,
                            wind_direction_10m   |-> wd.current.wind_direction]),
     hourly_data  |-> Some([time                 |-> wd.hourly.times,
                            temperature_2m       |-> wd.hourly.temperature,
                            relative_humidity_2m |-> wd.hourly.humidity,
                            dew_point_2m         |-> wd.hourly.dew_point,
                            wind_speed_10m       |-> wd.hourly.wind_speed,
                            wind_gusts_10m       |-> wd.hourly.wind_gusts,
                            wind_direction_10m   |-> wd.hourly.wind_direction,
                            pressure_msl         |-> wd.hourly.pressure,
                            temperature_850hPa   |-> wd.hourly.temp_850hpa,
                            geopotential_height_850hPa |-> wd.hourly.height_850hpa]),
     daily_data   |-> Some([i \in 1..Len(wd.daily.dates) |->
                               [d |-> wd.daily.dates[i],
                                t |-> wd.daily.temperature_min[i]]]),
     pws |-> wd.pws, kbos |-> wd.kbos, kbvy |-> wd.kbvy, buoy |-> wd.buoy_44013,
     wet_bulb |-> wd.current.wet_bulb, now_local |-> 0, hour |-> wd.hour]

\* The document with the hourly pressure list p and nothing else.
PressureDoc(p) == [EmptyDoc EXCEPT !.hourly.pressure = p]

-----
(* Specifications *)

Init ==
    /\ pws_file = None
    /\ asos_file = [s \in Stations |-> None]
    /\ buoy_file = None
    /\ ret = [src |-> "none", data |-> EmptyDict,
              meta |-> [status |-> "none", error |-> None]]
    /\ wrote = FALSE
    /\ lastGood = [s \in Sources |-> None]
    /\ fetched = [s \in Stations |-> <<>>]
    /\ frost_file = None
    /\ today = 20240930
    /\ lastOp = "init"
    /\ folded = {}
    /\ counted = {}
    /\ daily_data = <<>>
    /\ hourly_p = <<>>
    /\ derived = EmptyDict
    /\ weather_data = EmptyDoc
    /\ wind_risk = None
    /\ document = EmptyDict
    /\ inputs = Args(EmptyDoc)
    /\ requested = <<>>
    /\ om_ret = [data |-> None, meta |-> EmptyDict]
    /\ reading = [p \in Invocations |-> Idle]

\* Runs of the four cached fetchers, in any order, against any answers.
CacheNext ==
    \/ \E resp \in PwsResps, now \in Clock : FetchPws(resp, now)
    \/ \E s \in Stations, resp \in CacheAsosResps :
          /\ resp.ok => Len(fetched[s]) < MaxCacheFetched
          /\ FetchAsos(s, resp)
    \/ \E resp \in BuoyResps : FetchBuoy(resp)

SpecCache == Init /\ [][CacheNext]_vars

\* Runs of fetch_kbos_obs.
AsosNext ==
    \E resp \in AsosResps :
        /\ resp.ok => Len(fetched["KBOS"]) < MaxFetched
        /\ FetchAsos("KBOS", resp)

SpecAsos == Init /\ [][AsosNext]_vars

\* The hourly pressure lists of the trend runs: too short, with a missing
\* sample, and with 3-hour changes on both sides of every threshold.
HourlyPressures ==
    {<<>>, <<Some(101000), Some(101100), Some(101300)>>,
     <<Some(101000), None, Some(101200), Some(101300)>>,
     <<None, Some(101100), Some(101200), Some(101300)>>} \cup
    {<<Some(101000), Some(101010), Some(101020), Some(101000 + d), Some(101500)>> :
        d \in {-301, -300, -299, -61, -60, -59, 0, 59, 60, 61, 299, 300, 301}}

\* Runs of fetch_kbos_obs and of process_data.
TendencyNext ==
    \/ \E resp \in TendencyAsosResps :
          /\ resp.ok => Len(fetched["KBOS"]) < MaxTendencyFetched
          /\ FetchAsos("KBOS", resp)
    \/ \E p \in HourlyPressures : ProcessData(Args(PressureDoc(p)))

SpecTendency == Init /\ [][TendencyNext]_vars

MaxDays == 2

LongDays == 20

MaxFreezeDays == 62

\* The dates the clock is read on: around the start of the 2024 season, and
\* every LongDays days into it.
ClockDays == {20240930, 20241001, 20241002}

LongClockDays == {20241021, 20241110, 20241130, 20241201}

\* Daily minima, in tenths of a degree F, on both sides of 20, 28 and 32.
MinTemps == {None, Some(200), Some(201), Some(280), Some(281), Some(320), Some(321)}

CoarseTemps == {None, Some(250), Some(400)}

LongTemps == {Some(250), Some(400)}

IsLeap(y) == y % 4 = 0 /\ (y % 100 # 0 \/ y % 400 = 0)

\* The days of the year y before its month m (m = 13: the whole year).
DaysBefore(y, m) ==
    <<0, 31, 59, 90, 120, 151, 181, 212, 243, 273, 304, 334, 365>>[m]
    + (IF m > 2 /\ IsLeap(y) THEN 1 ELSE 0)

\* The days from 2000-01-01 to 1 January of the year y, for y in 2000..2099.
YearStart(y) == 365 * (y - 2000) + ((y - 2000) + 3) \div 4

\* The day number of the date d, and the date of the day number n.
Ord(d) ==
    YearStart(d \div 10000) + DaysBefore(d \div 10000, (d \div 100) % 100) + (d % 100)

DateOf(n) ==
    LET y0 == 2000 + (n - 1) \div 366
        y  == IF n > YearStart(y0 + 1) THEN y0 + 1 ELSE y0
        doy == n - YearStart(y)
        m  == CHOOSE k \in 1..12 : DaysBefore(y, k) < doy /\ doy <= DaysBefore(y, k + 1)
    IN  y * 10000 + m * 100 + (doy - DaysBefore(y, m))

\* The n consecutive dates from d on.
DaysFrom(d, n) == [i \in 1..n |-> DateOf(Ord(d) + i - 1)]

\* The date n days before d.
DaysBack(d, n) == DateOf(Ord(d) - n)

\* The forecast of consecutive days from start with the minima mins.
Series(start, mins) ==
    LET dates == DaysFrom(start, Len(mins))
    IN  [i \in 1..Len(mins) |-> [d |-> dates[i], t |-> mins[i]]]

\* The forecasts a run on the date now is given: none (the fetch failed), one
\* day with any minimum, two days with coarse minima, and 3 to MaxDays days
\* without a null minimum, each from two days ago, yesterday or today on.
Forecasts(now) ==
    {Series(start, mins) :
        start \in {DaysBack(now, 2), DaysBack(now, 1), now},
        mins \in [1..1 -> MinTemps] \cup {<<>>} \cup [1..2 -> CoarseTemps]
                 \cup UNION {[1..n -> LongTemps] : n \in 3..MaxDays}}

\* Forecasts of LongDays days with one minimum throughout, up to yesterday or
\* from the first day of the season on.
LongForecasts(now) ==
    {Series(start, [i \in 1..LongDays |-> t]) :
        start \in {DaysBack(now, LongDays), SeasonStart(now)}, t \in LongTemps}

\* Runs of update_frost_log as the days pass.
FrostNext ==
    \/ \E daily \in Forecasts(today) : UpdateFrostLog(daily)
    \/ \E d \in ClockDays : Tick(d)

SpecFrost == Init /\ [][FrostNext]_vars

\* Runs of update_frost_log on long forecasts, weeks apart, until the log
\* counts MaxFreezeDays freeze days.
FrostLongNext ==
    \/ \E daily \in LongForecasts(today) :
          /\ frost_file # None => frost_file[1].freeze_days < MaxFreezeDays
          /\ UpdateFrostLog(daily)
    \/ \E d \in LongClockDays : Tick(d)

SpecFrostLong == Init /\ [][FrostLongNext]_vars

-----------------------------------------------------------------------------
\* Tendencies in tenths of a hPa on both sides of the alarm thresholds.
AlarmTendencies ==
    {None, Some(-31), Some(-30), Some(-29), Some(0), Some(29), Some(30), Some(31)}

\* The station blocks of the alarm runs: {} (the fetch failed with nothing
\* cached) or an observation with or without a tendency.
KbosBlocks == {EmptyDict} \cup {[tendency_hpa |-> t] : t \in AlarmTendencies}

KbvyBlocks == {EmptyDict, [tendency_hpa |-> None], [tendency_hpa |-> Some(-35)]}

BuoyBlocks ==
    {EmptyDict} \cup
    {[pressure_tend_hpa |-> t] : t \in {None, Some(-30), Some(12), Some(30)}}

\* Hourly pressure lists whose 3-hour change, in hundredths of a hPa, lies
\* around the alarm thresholds and around the values that round to them.
AlarmPressures ==
    {<<>>} \cup
    {<<Some(101000), Some(101010), Some(101020), Some(101000 + d)>> :
        d \in {-304, -300, -296, -294, 0, 294, 296, 300, 304}}

\* No document has been built yet: an invocation of the collector builds one,
\* from its inputs alone.
NoDocument == weather_data = EmptyDoc /\ derived = EmptyDict /\ wind_risk = None

\* The run of process_data on a document, over documents that differ in
\* their tendencies.
AlarmNext ==
    \E kbos \in KbosBlocks, kbvy \in KbvyBlocks, buoy \in BuoyBlocks,
       p \in AlarmPressures :
        /\ NoDocument
        /\ ProcessData(Args([EmptyDoc EXCEPT !.kbos = kbos, !.kbvy = kbvy,
                                             !.buoy_44013 = buoy,
                                             !.hourly.pressure = p]))

SpecAlarm == Init /\ [][AlarmNext]_vars

MaxSlots == 13

\* Hourly slots [t, d, h, w]: temperature and dew point in tenths of a degree
\* F, humidity in percent, wind speed in tenths of a mph.  FoggySlot sits on
\* the three limits; each of the others misses one limit or lacks one value.
FoggySlot == [t |-> Some(600), d |-> Some(580), h |-> Some(93), w |-> Some(100)]

ClearSlots ==
    {[FoggySlot EXCEPT !.t = Some(601)], [FoggySlot EXCEPT !.h = Some(92)],
     [FoggySlot EXCEPT !.w = Some(101)], [FoggySlot EXCEPT !.t = None],
     [FoggySlot EXCEPT !.d = None], [FoggySlot EXCEPT !.h = None],
     [FoggySlot EXCEPT !.w = None]}

\* The document of the hourly slots, its dew point list cut short by cut.
SlotsDoc(slots, cut) ==
    [EmptyDoc EXCEPT
        !.hourly.times       = [i \in 1..Len(slots) |-> Some(i)],
        !.hourly.temperature = [i \in 1..Len(slots) |-> slots[i].t],
        !.hourly.dew_point   = [i \in 1..(Len(slots) - cut) |-> slots[i].d],
        !.hourly.humidity    = [i \in 1..Len(slots) |-> slots[i].h],
        !.hourly.wind_speed  = [i \in 1..Len(slots) |-> slots[i].w]]

\* Documents of up to MaxSlots hourly slots: k foggy slots before or after
\* slots of one other kind.
FogDocs ==
    {SlotsDoc([i \in 1..n |-> IF (i <= k) = first THEN FoggySlot ELSE other], cut) :
        n \in 0..MaxSlots, k \in 0..MaxSlots, other \in ClearSlots,
        first \in BOOLEAN, cut \in 0..1}

\* The run of process_data on a document, over documents that differ in
\* their hourly slots.
FogNext == \E wd \in FogDocs : NoDocument /\ ProcessData(Args(wd))

SpecFog == Init /\ [][FogNext]_vars

MaxBearing == 360

\* Gusts in tenths of a mph whose worry score lies on both sides of each level,
\* at exposure 1.0 and at exposure 0.95.
GustSpeeds == {0, 49, 50, 119, 120, 199, 200, 299, 300, 323, 324, 400}

\* The document of the hourly gusts, speeds and directions given, slot i at
\* the time i.
WindDoc(gusts, speeds, dirs) ==
    [EmptyDoc EXCEPT
        !.hourly.times          = [i \in 1..Len(dirs) |-> Some(i)],
        !.hourly.wind_gusts     = gusts,
        !.hourly.wind_speed     = speeds,
        !.hourly.wind_direction = dirs]

\* Hourly gusts 10, 15, 40, 20 mph, the 40 from due north and the others from
\* the south-west, with sustained winds of half the gusts.
GustExample ==
    WindDoc(<<Some(100), Some(150), Some(400), Some(200)>>,
            <<Some(50), Some(75), Some(200), Some(100)>>,
            <<Some(225), Some(225), Some(0), Some(225)>>)

\* Documents of one hourly slot with any gust and any bearing up to MaxBearing.
BearingDocs ==
    {WindDoc(<<Some(g)>>, <<Some(g \div 2)>>, <<Some(deg)>>) :
        g \in GustSpeeds, deg \in 0..MaxBearing}

\* The run of process_data on a document, over documents that differ in the
\* speed and the bearing of their wind.
WindNext == \E wd \in BearingDocs \cup {GustExample} : NoDocument /\ ProcessData(Args(wd))

SpecWind == Init /\ [][WindNext]_vars

MaxPeakSlots == 2

\* Hourly wind slots [g, s, dir]: gust and sustained speed in tenths of a mph,
\* direction in degrees, each possibly null.
WindSlots ==
    [g : {None, Some(100), Some(400)}, s : {None, Some(50), Some(250)},
     dir : {None, Some(0), Some(225)}]

\* The document of the wind slots, its gust list cut to its first keep entries.
SlotsWindDoc(slots, keep, current) ==
    [WindDoc([i \in 1..keep |-> slots[i].g], [i \in 1..Len(slots) |-> slots[i].s],
             [i \in 1..Len(slots) |-> slots[i].dir])
        EXCEPT !.current = current]

\* The current-conditions snapshots: without wind values and with them.
WindCurrents ==
    {EmptyDoc.current,
     [EmptyDoc.current EXCEPT !.wind_speed = Some(30), !.wind_gusts = Some(60),
                              !.wind_direction = Some(90)]}

\* The slots that fill a document around its one slot of any kind.
FillWindSlots ==
    {[g |-> Some(100), s |-> Some(50), dir |-> Some(225)],
     [g |-> Some(400), s |-> Some(250), dir |-> Some(0)],
     [g |-> None, s |-> None, dir |-> None]}

\* Documents of up to MaxPeakSlots wind slots, one of any kind among equal
\* ones, with the whole gust list or a part of it; documents without a slot;
\* and documents of 13 equal slots with one stronger slot.
PeakDocs ==
    UNION {{SlotsWindDoc([i \in 1..n |-> IF i = k THEN a ELSE b], keep, current) :
               k \in 1..n, a \in WindSlots, b \in FillWindSlots, keep \in 0..n,
               current \in WindCurrents} :
           n \in 1..MaxPeakSlots}
    \cup
    {SlotsWindDoc(<<>>, 0, current) : current \in WindCurrents}
    \cup
    {WindDoc([i \in 1..13 |-> IF i = k THEN Some(400) ELSE Some(100)],
             [i \in 1..13 |-> IF i = k THEN Some(250) ELSE Some(50)],
             [i \in 1..13 |-> Some(0)]) : k \in {1, 12, 13}}

\* The run of process_data on a document, over documents that differ in
\* their hourly wind slots.
PeakNext == \E wd \in PeakDocs : NoDocument /\ ProcessData(Args(wd))

SpecPeaks == Init /\ [][PeakNext]_vars

MaxGust == 500

\* One bearing in each sector of the exposure table.
SectorBearings == {10, 40, 75, 110, 150, 180, 225, 270, 300, 340}

\* Documents of one hourly slot with every gust from 0 to MaxGust tenths of a
\* mph and a bearing in each sector.
WorryDocs ==
    {WindDoc(<<Some(g)>>, <<Some(g \div 2)>>, <<Some(deg)>>) :
        g \in 0..MaxGust, deg \in SectorBearings}

\* The run of process_data on a document, over documents that differ in the
\* speed and the sector of their wind.
WorryNext == \E wd \in WorryDocs : NoDocument /\ ProcessData(Args(wd))

SpecWorry == Init /\ [][WorryNext]_vars

\* What fetch_current_gfs hands on: None (the request failed) or current
\* values, each of which may be null.
SourceCurrents ==
    {None} \cup
    {Some([temperature_2m |-> t, relative_humidity_2m |-> Some(80),
           wind_speed_10m |-> w, wind_gusts_10m |-> w, wind_direction_10m |-> dir]) :
        t \in {None, Some(612)}, w \in {None, Some(85)}, dir \in {None, Some(100)}}

DocSlots == 8

\* An hourly forecast of n slots from the time 1 on, whose slot missing (0:
\* none) is null in every series.
HourlyOf(n, missing) ==
    LET series(v) == [i \in 1..n |-> IF i = missing THEN None ELSE Some(v + i)]
    IN  [time                 |-> [i \in 1..n |-> Some(i)],
         temperature_2m       |-> series(600),
         relative_humidity_2m |-> series(70),
         dew_point_2m         |-> series(500),
         wind_speed_10m       |-> series(80),
         wind_gusts_10m       |-> series(150),
         wind_direction_10m   |-> series(90),
         pressure_msl         |-> series(101300),
         temperature_850hPa   |-> series(300),
         geopotential_height_850hPa |-> series(14500)]

\* What fetch_hourly_hrrr hands on: None, or forecasts of 0, 3 or DocSlots slots
\* with no null, or a null in the first, the fourth or the seventh slot.
SourceHourlies ==
    {None, Some(HourlyOf(0, 0)), Some(HourlyOf(3, 0)), Some(HourlyOf(3, 1))} \cup
    {Some(HourlyOf(DocSlots, missing)) : missing \in {0, 1, 4, 7}}

SourceDailies ==
    {None, Some(<<[d |-> 20241002, t |-> Some(415)], [d |-> 20241003, t |-> None]>>)}

SourcePws ==
    {None, [temperature |-> None, stale |-> TRUE],
     [temperature |-> Some(655), stale |-> FALSE]}

SourceKbos == {None, [tendency_hpa |-> None], [tendency_hpa |-> Some(-31)]}

SourceKbvy == {None, [tendency_hpa |-> Some(-35)]}

SourceBuoy ==
    {None} \cup
    {[water_temp_f |-> wt, pressure_tend_hpa |-> pt] :
        wt \in {None, Some(570)}, pt \in {None, Some(12)}}

\* The arguments of a run at the local time now_local, hour o'clock.
RunArgs(current, hourly, daily, pws, kbos, kbvy, buoy, now_local, hour) ==
    [current_data |-> current, hourly_data |-> hourly, daily_data |-> daily,
     pws |-> pws, kbos |-> kbos, kbvy |-> kbvy, buoy |-> buoy,
     wet_bulb |-> Some(560), now_local |-> now_local, hour |-> hour]

\* No run of process_data has returned yet.
NoRun == document = EmptyDict

\* The run of process_data on what the fetchers hand on, each of which may
\* have failed or have null fields, in the afternoon and before the first
\* slot of the forecast.
DocumentNext ==
    /\ NoRun
    /\ \E current \in SourceCurrents, hourly \in SourceHourlies,
          daily \in SourceDailies, pws \in SourcePws, kbos \in SourceKbos,
          kbvy \in SourceKbvy, buoy \in SourceBuoy :
           ProcessData(RunArgs(current, hourly, daily, pws, kbos, kbvy, buoy, 1, 14))

SpecDocument == Init /\ [][DocumentNext]_vars

\* Land temperatures, in tenths of a degree F, whose difference to a water
\* temperature of 60.0 lies on both sides of every threshold of the detector.
LandTemps ==
    {Some(600 + d) : d \in {-51, -50, -49, 0, 29, 30, 31, 49, 50, 51, 79, 80, 81}}

\* The land and water temperatures of the sea breeze runs: both present, or
\* one of them null.
LandWater ==
    {<<t, Some(600)>> : t \in LandTemps} \cup {<<None, Some(600)>>, <<Some(690), None>>}

\* Wind speeds in tenths of a mph around 6 and 12 mph, and bearings around
\* the ends of the onshore sector.
BreezeSpeeds == {None, Some(59), Some(60), Some(119), Some(120)}

BreezeBearings == {None, Some(0), Some(135), Some(136), Some(314), Some(315)}

BreezeHours == {0, 5, 6, 8, 9, 19, 20, 21, 23}

\* The run of process_data over land and water temperatures, winds and hours
\* of the day.
SeaBreezeNext ==
    /\ NoRun
    /\ \E lw \in LandWater, ws \in BreezeSpeeds, dir \in BreezeBearings,
          hour \in BreezeHours :
           ProcessData(RunArgs(
               Some([temperature_2m |-> Some(640), relative_humidity_2m |-> Some(60),
                     wind_speed_10m |-> ws, wind_gusts_10m |-> None,
                     wind_direction_10m |-> dir]),
               Some(HourlyOf(3, 0)), None,
               [temperature |-> lw[1], stale |-> FALSE], None, None,
               [water_temp_f |-> lw[2], pressure_tend_hpa |-> None], 1, hour))

SpecSeaBreeze == Init /\ [][SeaBreezeNext]_vars

MaxPayload == 12

\* The answers Open-Meteo has for a request: a failed request, an error
\* status, a payload that carries an error, or one of MaxPayload payloads.
OmResps ==
    {[kind |-> "http", err |-> "ReadTimeout", data |-> 0],
     [kind |-> "http", err |-> "502 Server Error", data |-> 0],
     [kind |-> "api", err |-> "Invalid model", data |-> 0]} \cup
    {[kind |-> "ok", err |-> "", data |-> n] : n \in 1..MaxPayload}

\* Calls of the three model fetchers, the service answering the primary and
\* the fallback request in any way.
ModelsNext ==
    \/ \E r1 \in OmResps, r2 \in OmResps : FetchHourly(r1, r2)
    \/ \E r1 \in OmResps, r2 \in OmResps : FetchDaily(r1, r2)
    \/ \E r1 \in OmResps : FetchCurrent(r1)

SpecModels == Init /\ [][ModelsNext]_vars

MaxRunFetched == 3

\* What KBOS answers in the runs of main: nothing, or an observation with a
\* pressure of 1013.0 or 1009.5 hPa.
MainAsosResps ==
    {AsosFailure} \cup
    {AsosOk(AsosProps("2024-10-02T12:54:00+00:00", Some(pa), Some(122))) :
        pa \in {101300, 100950}}

\* What the buoy answers: nothing, or an observation whose PTDY column is
\* missing, -3.5 or +0.4 hPa.
MainBuoyResps ==
    {BuoyNoData("error")} \cup
    {BuoyData("2024-10-02T12:50Z", Some(141), ptdy) : ptdy \in {None, Some(-35), Some(4)}}

\* Invocations of the collector one after the other.
MainNext ==
    \E kbos_resp \in MainAsosResps, buoy_resp \in MainBuoyResps :
        /\ kbos_resp.ok => Len(fetched["KBOS"]) < MaxRunFetched
        /\ Main(kbos_resp, buoy_resp, "2024-10-02T08:00:00", 1, 14)

SpecMain == Init /\ [][MainNext]_vars

MaxRaceFetched == 2

\* Two invocations on the KBOS history file: each reads and writes it in two
\* steps that the other's steps may come between.
AsosRaceNext ==
    \/ \E p \in Invocations : ReadAsos(p, "KBOS")
    \/ \E p \in Invocations, resp \in AsosResps :
          /\ resp.ok => Len(fetched["KBOS"]) < MaxRaceFetched
          /\ WriteAsos(p, resp)

SpecAsosRace == Init /\ [][AsosRaceNext]_vars

\* The forecasts of the overlapping runs: none, yesterday alone, or the two
\* days before today, with a freeze or without.
RaceForecasts(now) ==
    {<<>>} \cup
    {Series(DaysBack(now, n), [i \in 1..n |-> t]) : n \in 1..2, t \in LongTemps}

\* Two invocations on the frost log file, as the days pass.
FrostRaceNext ==
    \/ \E p \in Invocations : ReadFrost(p)
    \/ \E p \in Invocations, daily \in RaceForecasts(today) : WriteFrost(p, daily)
    \/ \E d \in ClockDays : Tick(d)

SpecFrostRace == Init /\ [][FrostRaceNext]_vars

ShortSlots == 7

MaxSliceSlots == 50

\* The run of process_data on an hourly forecast of up to ShortSlots or of
\* MaxSliceSlots slots, at the hours 1, 2, ..., at a local time before, within
\* or after the forecast.
SliceNext ==
    /\ NoRun
    /\ \E n \in 0..ShortSlots \cup {MaxSliceSlots} :
          \E now_local \in 0..(n + 2) :
               ProcessData(RunArgs(
                   Some([temperature_2m |-> Some(640), relative_humidity_2m |-> Some(60),
                         wind_speed_10m |-> Some(85), wind_gusts_10m |-> Some(160),
                         wind_direction_10m |-> Some(100)]),
                   Some(HourlyOf(n, 0)), None, None, None, None, None, now_local, 14))

SpecSlice == Init /\ [][SliceNext]_vars

-----
(* Properties of the caches *)

\* The cache file of a source, None when there is none.
CacheFile(s) ==
    IF s = "pws" THEN pws_file
    ELSE IF s = "buoy" THEN buoy_file
    ELSE asos_file[s]

\* The station-specific "usable" test of a cache file's content.
Usable(s, file) ==
    IF file = None THEN FALSE
    ELSE IF s = "pws" THEN "temperature" \in DOMAIN file[1] /\ file[1].temperature # None
    ELSE IF s = "buoy" THEN file[1] # EmptyDict
    ELSE file[1] # <<>>

\* The fields a source stores in its cache.
StoredKeys(s) ==
    IF s = "pws" THEN {"station", "name", "updated", "temperature"}
    ELSE IF s = "buoy"
    THEN {"time", "wind_dir", "wind_mph", "gust_mph", "wave_ht_ft", "wave_period_sec",
          "pressure_hpa", "air_temp_f", "water_temp_f", "dewpoint_f", "pressure_tend_hpa"}
    ELSE {"station", "time", "pressure_hpa", "temp_f", "dewpoint_f", "wind_mph", "wind_dir"}

\* C1: a run of a cached source that ends with status "error" leaves that
\* source's cache file as it was and writes nothing; a cache file changes, or
\* is written, only in a run of its own source that ends with status "ok".
C1_FailedRunKeepsCache ==
    [][/\ ret'.meta.status = "error" =>
              /\ ~wrote'
              /\ \A s \in Sources : CacheFile(s)' = CacheFile(s)
       /\ wrote' => ret'.meta.status = "ok"
       /\ \A s \in Sources :
              CacheFile(s)' # CacheFile(s) => ret'.src = s /\ ret'.meta.status = "ok"]_vars

\* A failed run of a source whose cache file exists.
C1_Witness ==
    /\ ret.meta.status = "error"
    /\ ret.src \in Sources
    /\ CacheFile(ret.src) # None
    /\ ~wrote

\* C2: a run of a cached source that fails while a usable cached value exists
\* returns the fields of the most recent successful run of that source with
\* stale = true, status "error" and an error message.
C2_StaleFallback ==
    [][(ret'.meta.status = "error" /\ Usable(ret'.src, CacheFile(ret'.src))) =>
          /\ lastGood[ret'.src] # None
          /\ ret'.data = [k \in StoredKeys(ret'.src) \cup {"stale"} |->
                             IF k = "stale" THEN TRUE ELSE lastGood[ret'.src][1][k]]
          /\ ret'.meta.error # None]_vars

\* The PWS temperature 41.2 is returned stale by a failed run, with two
\* different KBOS observations and a buoy observation cached as well.
C2_Witness ==
    /\ ret.src = "pws" /\ ret.meta.status = "error"
    /\ ret.data.stale /\ ret.data.temperature = Some(412)
    /\ Len(fetched["KBOS"]) = 2 /\ fetched["KBOS"][1] # fetched["KBOS"][2]
    /\ lastGood["buoy"] # None

\* C3: a run of a cached source that fails while no usable cached value exists
\* returns a placeholder with the source's normal fields, all null (the PWS
\* station and name excepted), and stale = true.
C3_Placeholder ==
    [][(ret'.meta.status = "error" /\ ~Usable(ret'.src, CacheFile(ret'.src))) =>
          /\ DOMAIN ret'.data = StoredKeys(ret'.src) \cup {"stale"}
          /\ ret'.data.stale = TRUE
          /\ \A k \in StoredKeys(ret'.src) \ {"station", "name"} :
                 ret'.data[k] = None]_vars

-----------------------------------------------------------------------------
(* Properties of the rolling history *)

Min(a, b) == IF a <= b THEN a ELSE b

KbosHistory == IF asos_file["KBOS"] = None THEN <<>> ELSE asos_file["KBOS"][1]

\* C4: from an empty cache, the cached KBOS history is the last min(6, k) of
\* the k observations fetched successfully so far, oldest first.
C4_HistoryIsLastSix ==
    LET f == fetched["KBOS"]
        k == Len(f)
        h == KbosHistory
    IN  /\ Len(h) = Min(6, k)
        /\ \A i \in 1..Len(h) : h[i] = f[k - Len(h) + i]

\* Seven observations were fetched, the evicted one differing from its
\* successor, and a failed run followed.
C4_Witness ==
    /\ Len(fetched["KBOS"]) = 7
    /\ fetched["KBOS"][1] # fetched["KBOS"][2]
    /\ ret.meta.status = "error"

\* C5 as claimed: on a successful fetch the tendency is the newest pressure
\* minus the pressure of the oldest entry of the truncated window, and it and
\* its label are null when the window has fewer than 2 entries or the pressure
\* of the oldest or of the newest entry is null.
C5_OldestEntryTendency ==
    (ret.src = "KBOS" /\ ret.meta.status = "ok") =>
        LET h == KbosHistory
            oldest == h[1].pressure_hpa
            newest == h[Len(h)].pressure_hpa
        IN  IF Len(h) < 2 \/ oldest = None \/ newest = None
            THEN ret.data.tendency_hpa = None /\ ret.data.tendency_label = None
            ELSE ret.data.tendency_hpa = Some(newest[1] - oldest[1])

\* C5 as amended: on a successful fetch the tendency is the newest pressure
\* minus the earliest non-null pressure of the truncated window, and it and
\* its label are null exactly when the window has fewer than 2 entries or the
\* newest pressure is null.
C5_EarliestNonNullTendency ==
    (ret.src = "KBOS" /\ ret.meta.status = "ok") =>
        LET h == KbosHistory
            newest == h[Len(h)].pressure_hpa
            nonnull == {i \in 1..Len(h) : h[i].pressure_hpa # None}
        IN  IF Len(h) < 2 \/ newest = None
            THEN ret.data.tendency_hpa = None /\ ret.data.tendency_label = None
            ELSE /\ ret.data.tendency_label # None
                 /\ \E i \in nonnull :
                        /\ \A j \in nonnull : i <= j
                        /\ ret.data.tendency_hpa = Some(newest[1] - h[i].pressure_hpa[1])

\* A full window after an eviction whose oldest entry has no pressure and
\* whose tendency is 3.0 hPa all the same.
C5_Witness ==
    /\ ret.src = "KBOS" /\ ret.meta.status = "ok"
    /\ Len(fetched["KBOS"]) = 7
    /\ KbosHistory[1].pressure_hpa = None
    /\ ret.data.tendency_hpa = Some(30)

\* The label the thresholds give a change of d hundredths of a hPa.
Band(d) ==
    CASE d >= 300 -> "Rising fast"
      [] d < 300 /\ d >= 60 -> "Rising"
      [] d < 60 /\ d <= -300 -> "Falling fast"
      [] d < 60 /\ d > -300 /\ d <= -60 -> "Falling"
      [] OTHER -> "Steady"

\* C6: the ASOS window tendency and the model 3-hour trend are labelled by the
\* same thresholds: >= 3.0 "Rising fast", >= 0.6 "Rising", <= -3.0 "Falling
\* fast", <= -0.6 "Falling", else "Steady"; 3.0 gives "Rising fast", 2.99
\* "Rising", 0.6 "Rising" and 0.59 "Steady".
C6_TendencyLabels ==
    /\ (ret.src = "KBOS" /\ ret.meta.status = "ok" /\ ret.data.tendency_hpa # None) =>
           ret.data.tendency_label = Some(Band(10 * ret.data.tendency_hpa[1]))
    /\ "pressure_trend" \in DOMAIN derived =>
           LET d == hourly_p[4][1] - hourly_p[1][1]
           IN  /\ derived.pressure_trend = Band(d)
               /\ d = 300 => derived.pressure_trend = "Rising fast"
               /\ d = 299 => derived.pressure_trend = "Rising"
               /\ d = 60  => derived.pressure_trend = "Rising"
               /\ d = 59  => derived.pressure_trend = "Steady"

\* A model trend of 2.99 hPa labelled "Rising" beside an observed tendency of
\* 3.0 hPa labelled "Rising fast".
C6_Witness ==
    /\ "pressure_trend" \in DOMAIN derived
    /\ hourly_p[4][1] - hourly_p[1][1] = 299
    /\ derived.pressure_trend = "Rising"
    /\ ret.src = "KBOS" /\ ret.meta.status = "ok"
    /\ ret.data.tendency_hpa = Some(30)
    /\ ret.data.tendency_label = Some("Rising fast")

-----------------------------------------------------------------------------
(* Properties of the frost log *)

\* The three counters of a log.
Counters(log) == <<log.freeze_days, log.hard_freeze_days, log.severe_days>>

\* C7: running update_frost_log twice in a row with the same forecast and the
\* same today leaves the three counters after the second run equal to their
\* values after the first, whatever the forecast.
C7_FoldIdempotent ==
    \A daily \in LongForecasts(today) :
        \A once \in {update_frost_log(frost_file, daily, today)} :
            Counters(update_frost_log(Some(once), daily, today)) = Counters(once)

\* C8: no date increments a counter in two different runs, also after
\* logged_dates has been cut to its 60 latest entries.
C8_CountedOnce ==
    [][lastOp' = "run" =>
          \A e \in folded' : (e.t # None /\ e.t[1] <= 320) => e.d \notin counted]_vars

\* C9: the season_start a run stores is the latest Oct 1 on or before today;
\* when the stored season_start was another (or there was no log), the log the
\* run leaves holds only what this run folded: the counters count this run's
\* dates, the last_* dates and logged_dates are among them, and all are zero,
\* null and empty when this run folded nothing.
C9_SeasonRollover ==
    [][lastOp' = "run" =>
          LET new == frost_file'[1]
              ss  == new.season_start
              now == {e \in folded' : e.t # None}
              Upto(limit) == {e.d : e \in {x \in now : x.t[1] <= limit}}
          IN  /\ ss % 10000 = 1001 /\ ss <= today /\ today < ss + 10000
              /\ (frost_file = None \/ frost_file[1].season_start # ss) =>
                    /\ new.freeze_days = Cardinality(Upto(320))
                    /\ new.hard_freeze_days = Cardinality(Upto(280))
                    /\ new.severe_days = Cardinality(Upto(200))
                    /\ new.logged_dates = {e.d : e \in now}
                    /\ \A k \in {"last_freeze", "last_hard", "last_severe"} :
                           new[k] = None \/ new[k][1] \in Upto(320)
                    /\ Upto(320) = {} =>
                           /\ Counters(new) = <<0, 0, 0>>
                           /\ new.last_freeze = None /\ new.last_hard = None
                           /\ new.last_severe = None]_vars

\* A log of the 2023 season that had counted freeze days was evaluated on
\* 2024-10-02: it has season_start 2024-10-01 and zeroed counters.
C9_Witness ==
    /\ lastOp = "run" /\ today = 20241002
    /\ \E d \in counted : d < 20241001
    /\ frost_file[1].season_start = 20241001
    /\ Counters(frost_file[1]) = <<0, 0, 0>>
    /\ frost_file[1].last_freeze = None
    /\ frost_file[1].logged_dates = {}

\* C10: from one run to the next with the same season_start, none of the
\* three persisted counters decreases.
C10_CountersMonotone ==
    [][(frost_file # None /\ frost_file' # None
        /\ frost_file'[1].season_start = frost_file[1].season_start) =>
          /\ frost_file'[1].freeze_days >= frost_file[1].freeze_days
          /\ frost_file'[1].hard_freeze_days >= frost_file[1].hard_freeze_days
          /\ frost_file'[1].severe_days >= frost_file[1].severe_days]_vars

\* A run that added one freeze day to a log that already counted one.
C10_Witness ==
    /\ lastOp = "run"
    /\ frost_file[1].freeze_days = 2
    /\ Cardinality({e \in folded : e.t # None /\ e.t[1] <= 320}) = 1

\* The log a run starts from, seen from the step of the run: the stored log
\* when it is of the season the run stores, a new record otherwise.
LogBefore ==
    IF frost_file # None /\ frost_file[1].season_start = frost_file'[1].season_start
    THEN frost_file[1]
    ELSE NewSeasonLog(frost_file'[1].season_start)

\* The positions of the run's forecast whose date is strictly before today, in
\* the season and not in logged_dates before the run.
Eligible ==
    {i \in DOMAIN daily_data' :
        /\ daily_data'[i].d < today
        /\ daily_data'[i].d >= frost_file'[1].season_start
        /\ daily_data'[i].d \notin LogBefore.logged_dates}

\* The eligible positions with a minimum of at most limit tenths of a degree.
EligibleUpto(limit) ==
    {i \in Eligible : daily_data'[i].t # None /\ daily_data'[i].t[1] <= limit}

CounterKeys == {"freeze_days", "hard_freeze_days", "severe_days"}

LastKeys == {"last_freeze", "last_hard", "last_severe"}

LastDate(S) == daily_data'[CHOOSE i \in S : \A j \in S : j <= i].d

C13_VisitedIsLogged ==
    [][lastOp' = "run" =>
          \A i \in Eligible : daily_data'[i].d \in frost_file'[1].logged_dates]_vars

\* The entries of the run's forecast dated today or later with a minimum of
\* 32 F or less, in forecast order.  A minimum is held in tenths, on which
\* round(t, 1) changes nothing.
ForecastFreezes ==
    LET sel == SelectSeq(daily_data',
                         LAMBDA e : e.d >= today /\ e.t # None /\ e.t[1] <= 320)
    IN  [i \in 1..Len(sel) |-> [date |-> sel[i].d, min_f |-> sel[i].t[1]]]

\* C14: after a run upcoming_freeze_days is exactly the list, in forecast
\* order, of this run's forecast entries dated today or later with a minimum
\* of 32 F or less, and no date is both folded and listed by the same run.
C14_UpcomingRecomputed ==
    [][lastOp' = "run" =>
          LET upcoming == frost_file'[1].upcoming_freeze_days
          IN  /\ upcoming = ForecastFreezes
              /\ \A i \in DOMAIN upcoming, e \in folded' : upcoming[i].date # e.d
              /\ \A i \in DOMAIN upcoming, j \in Eligible :
                     upcoming[i].date # daily_data'[j].d]_vars

\* A run given yesterday and today at 25.0 F: the list holds today alone and
\* yesterday is folded.
C14_Witness ==
    /\ lastOp = "run" /\ Len(daily_data) = 2
    /\ daily_data[2].d = today /\ daily_data[2].t = Some(250)
    /\ daily_data[1] \in folded /\ daily_data[1].t = Some(250)
    /\ frost_file[1].upcoming_freeze_days = <<[date |-> today, min_f |-> 250]>>
    /\ today \notin frost_file[1].logged_dates

-----------------------------------------------------------------------------
(* Properties of the derived block *)

\* The tendency candidates of the latest document in the order KBOS, KBVY,
\* buoy, model.
Candidates ==
    << [v |-> Get(weather_data.kbos, "tendency_hpa"), src |-> "KBOS"],
       [v |-> Get(weather_data.kbvy, "tendency_hpa"), src |-> "KBVY"],
       [v |-> Get(weather_data.buoy_44013, "pressure_tend_hpa"), src |-> "Buoy"],
       [v |-> IF "pressure_trend_hpa_3h" \in DOMAIN derived
              THEN Some(derived.pressure_trend_hpa_3h) ELSE None,
        src |-> "model"] >>

\* C15: the tendency selected for the pressure alarm is the first non-null
\* candidate in the order KBOS, KBVY, buoy, model 3-hour trend, the recorded
\* source names that candidate, and no tendency is recorded only when all
\* candidates are null.
C15_FirstNonNullCandidate ==
    LET present == {i \in 1..4 : Candidates[i].v # None}
    IN  IF present = {} THEN "best_pressure_tend" \notin DOMAIN derived
        ELSE /\ "best_pressure_tend" \in DOMAIN derived
             /\ derived.best_pressure_tend = Candidates[MinOf(present)].v[1]
             /\ derived.best_pressure_tend_src = Candidates[MinOf(present)].src

\* C16: pressure_alarm is "falling" exactly when the selected tendency is
\* <= -3.0 and "rising" exactly when it is >= +3.0, the model candidate being
\* the 3-hour trend p[3] - p[0]: when the model is the selected source the
\* alarm fires exactly when pressure_trend is "Falling fast" or "Rising fast".
C16_AlarmThresholds ==
    "best_pressure_tend" \in DOMAIN derived =>
        LET selected == IF derived.best_pressure_tend_src = "model"
                        THEN hourly_p[4][1] - hourly_p[1][1]
                        ELSE 10 * derived.best_pressure_tend
        IN  /\ derived.pressure_alarm = Some("falling") <=> selected <= -300
            /\ derived.pressure_alarm = Some("rising") <=> selected >= 300
            /\ derived.pressure_alarm \in {None, Some("falling"), Some("rising")}
            /\ derived.best_pressure_tend_src = "model" =>
                   (derived.pressure_alarm # None <=>
                        derived.pressure_trend \in {"Falling fast", "Rising fast"})

\* The fog window of the latest document and its slots that meet the three
\* limits with all four values present.
FogWindow ==
    LET h == weather_data.hourly
    IN  MinOf({12, Len(h.temperature), Len(h.dew_point), Len(h.humidity),
               Len(h.wind_speed)})

FoggySlots ==
    LET h == weather_data.hourly
    IN  {i \in 1..FogWindow :
            /\ h.temperature[i] # None /\ h.dew_point[i] # None
            /\ h.humidity[i] # None /\ h.wind_speed[i] # None
            /\ h.temperature[i][1] - h.dew_point[i][1] <= 20
            /\ h.humidity[i][1] >= 93
            /\ h.wind_speed[i][1] <= 100}

\* C17: with window = min(12, available slots), a slot is foggy iff temp - dew
\* point <= 2 F, humidity >= 93 % and wind <= 10 mph, none of the four being
\* null; fog_probability is the percentage foggy / window to the nearest whole
\* number, labelled Likely from 75, Possible from 40, Low chance from 15, else
\* Unlikely (9 of 12 give 75 and "Likely"); there is no fog key when window is 0.
C17_FogProbability ==
    LET count == Cardinality(FoggySlots)
        window == FogWindow
    IN  IF window = 0
        THEN DOMAIN derived \cap {"fog_probability", "fog_label", "fog_hours_in_12h"} = {}
        ELSE /\ derived.fog_hours_in_12h = count
             /\ 2 * (derived.fog_probability * window - 100 * count) <= window
             /\ 2 * (100 * count - derived.fog_probability * window) <= window
             /\ derived.fog_label =
                    (IF 100 * count >= 75 * window THEN "Likely"
                     ELSE IF 100 * count >= 40 * window THEN "Possible"
                     ELSE IF 100 * count >= 15 * window THEN "Low chance"
                     ELSE "Unlikely")
             /\ derived.fog_label =
                    (IF derived.fog_probability >= 75 THEN "Likely"
                     ELSE IF derived.fog_probability >= 40 THEN "Possible"
                     ELSE IF derived.fog_probability >= 15 THEN "Low chance"
                     ELSE "Unlikely")
             /\ (count = 9 /\ window = 12) =>
                    derived.fog_probability = 75 /\ derived.fog_label = "Likely"

\* 9 slots on the limits and 3 slots without a humidity among 13: 75 %, Likely.
C17_Witness ==
    /\ Len(weather_data.hourly.temperature) = 13
    /\ Len(weather_data.hourly.dew_point) = 12
    /\ Cardinality(FoggySlots) = 9
    /\ \E i \in 1..12 : weather_data.hourly.humidity[i] = None
    /\ derived.fog_probability = 75
    /\ derived.fog_label = "Likely"
    /\ derived.fog_hours_in_12h = 9

-----------------------------------------------------------------------------
(* Properties of the wind risk block *)

\* The sub-scores of the latest document's wind_risk block.
SubScores ==
    IF wind_risk = None THEN {}
    ELSE {wind_risk[1][k] : k \in DOMAIN wind_risk[1] \ {"window_hours"}}

\* C18: every compass degree d in [0, 360) lies in exactly one sector
\* [min, max) of WIND_EXPOSURE_TABLE, get_exposure_factor(d) is that sector's
\* factor, between 0.05 and 1.0, and the 0.5 fallback is not reached.
C18_ExposureCoverage ==
    \A sub \in SubScores :
        LET d == sub.direction_deg
            rows == {i \in DOMAIN WIND_EXPOSURE_TABLE :
                        WIND_EXPOSURE_TABLE[i][1] <= d /\ d < WIND_EXPOSURE_TABLE[i][2]}
        IN  /\ d \in 0..359
            /\ Cardinality(rows) = 1
            /\ \A i \in rows : sub.exposure_factor = WIND_EXPOSURE_TABLE[i][3]
            /\ 5 <= sub.exposure_factor /\ sub.exposure_factor <= 100
            /\ SectorIndex(d) # 0

\* A gust from 359 degrees scored with the factor 0.95 of the last sector.
C18_Witness ==
    /\ wind_risk # None /\ "gust" \in DOMAIN wind_risk[1]
    /\ weather_data.hourly.wind_direction = <<Some(359)>>
    /\ wind_risk[1].gust.direction_deg = 359
    /\ wind_risk[1].gust.exposure_factor = 95

\* The peak the hourly slots give the series values of the latest document:
\* the slots of the first 12 that have both a value and a direction.
ValidSlots(values) ==
    LET dirs == weather_data.hourly.wind_direction
    IN  {i \in 1..MinOf({12, Len(values), Len(dirs)}) :
            values[i] # None /\ dirs[i] # None}

\* Whether the sub-score key of wind_risk is the peak of the series values,
\* or the current snapshot's current_key when the series has no valid slot.
PeakOfOwnSeries(key, values, current_key) ==
    LET dirs  == weather_data.hourly.wind_direction
        valid == ValidSlots(values)
        has   == wind_risk # None /\ key \in DOMAIN wind_risk[1]
        cur   == weather_data.current
    IN  IF valid # {}
        THEN /\ has
             /\ \A j \in valid : values[j][1] <= wind_risk[1][key].peak_mph
             /\ \E i \in valid :
                    /\ values[i][1] = wind_risk[1][key].peak_mph
                    /\ dirs[i][1] % 360 = wind_risk[1][key].direction_deg
                    /\ weather_data.hourly.times[i] = wind_risk[1][key].peak_time
        ELSE /\ has <=> (cur[current_key] # None /\ cur.wind_direction # None)
             /\ has => /\ wind_risk[1][key].peak_mph = cur[current_key][1]
                       /\ wind_risk[1][key].direction_deg = cur.wind_direction[1] % 360
                       /\ wind_risk[1][key].peak_time = None

\* C19: the gust peak and the sustained peak are each the maximum of their own
\* series over the first 12 slots that have both a speed and a direction,
\* paired with that slot's direction and time; null slots are skipped; the
\* sustained peak does not depend on the gust series; each falls back to the
\* current snapshot only when its own series has no valid slot.
C19_IndependentPeaks ==
    /\ PeakOfOwnSeries("gust", weather_data.hourly.wind_gusts, "wind_gusts")
    /\ PeakOfOwnSeries("sustained", weather_data.hourly.wind_speed, "wind_speed")

\* The level the bands give a worry score in hundredths.
LevelOf(score) ==
    CASE score >= 3000 -> "SEVERE"
      [] score < 3000 /\ score >= 2000 -> "SIGNIFICANT"
      [] score < 2000 /\ score >= 1200 -> "NOTABLE"
      [] score < 1200 /\ score >= 500 -> "NOTICEABLE"
      [] OTHER -> "LOW"

\* C20: the level of a sub-score is SEVERE from a worry score of 30,
\* SIGNIFICANT from 20, NOTABLE from 12, NOTICEABLE from 5, else LOW; hourly
\* gusts 10, 15, 40, 20 with exposure 1.0 at the 40-mph slot give the gust
\* worry score 40, the level SEVERE and that slot's time as peak_time and as
\* derived.wind_peak_time.
C20_WorryLevels ==
    /\ \A sub \in SubScores :
           /\ sub.level = LevelOf(sub.worry_score)
           /\ sub.exposure_factor = 100 => sub.worry_score = 10 * sub.peak_mph
    /\ weather_data = GustExample =>
           /\ wind_risk[1].gust.worry_score = 4000
           /\ wind_risk[1].gust.level = "SEVERE"
           /\ wind_risk[1].gust.peak_time = weather_data.hourly.times[3]
           /\ derived.wind_peak_time = weather_data.hourly.times[3][1]

\* The document of the gusts 10, 15, 40, 20 scored SEVERE at 40.
C20_Witness ==
    /\ weather_data = GustExample
    /\ wind_risk # None
    /\ wind_risk[1].gust.peak_mph = 400
    /\ wind_risk[1].gust.exposure_factor = 100
    /\ wind_risk[1].gust.level = "SEVERE"
    /\ wind_risk[1].sustained.level = "SIGNIFICANT"

\* The exposure factors of the table, in hundredths.
TableFactors == {WIND_EXPOSURE_TABLE[i][3] : i \in DOMAIN WIND_EXPOSURE_TABLE}

\* C21: the rounded worry score does not decrease when the speed grows at a
\* fixed exposure factor of the table, and does not decrease when the
\* exposure factor grows at a fixed non-negative speed.
C21_WorryMonotone ==
    \A sub \in SubScores :
        LET v == sub.peak_mph
            e == sub.exposure_factor
            w == sub.worry_score
        IN  /\ \A v2 \in {v + 1, v + 10, v + 100} : worry_score(v2, e) >= w
            /\ v >= 1 => worry_score(v - 1, e) <= w
            /\ \A e2 \in TableFactors :
                   /\ e2 >= e => worry_score(v, e2) >= w
                   /\ e2 <= e => worry_score(v, e2) <= w
            /\ w >= 0

\* A gust of 32.4 mph from the north-west scored 30.0, above the 29.91 of
\* 32.3 mph and above the 27.66 the same gust scores at exposure 0.9.
C21_Witness ==
    /\ wind_risk # None /\ "gust" \in DOMAIN wind_risk[1]
    /\ wind_risk[1].gust.peak_mph = 324
    /\ wind_risk[1].gust.exposure_factor = 95
    /\ wind_risk[1].gust.worry_score = 3000
    /\ worry_score(323, 95) = 2991
    /\ worry_score(324, 90) = 2766

-----------------------------------------------------------------------------
(* Properties of the document *)

\* The top-level keys of the output contract.
ContractKeys ==
    {"schema_version", "generated_at", "location", "sources", "alerts", "current",
     "hourly", "daily", "tides", "tide_curve", "kbos", "kbvy", "buoy_44013", "pws",
     "frost_log", "nws_forecast", "derived", "wind_risk", "hyperlocal"}

\* C22: every document process_data returns has every top-level key of the
\* output contract, whichever sources failed.
C22_StableShape ==
    document # EmptyDict => ContractKeys \subseteq DOMAIN document

\* The hourly and daily data the latest run was given.
GivenHourly == HourlyBlock(inputs.hourly_data[1], inputs.now_local)

GivenDaily == DailyBlock(inputs.daily_data[1])

\* C23: when the current conditions failed and the hourly and daily forecasts
\* did not, the document carries the hourly and daily data and the metrics
\* derived from the hourly data alone.
C23_FailureIsolation ==
    (/\ document # EmptyDict
     /\ inputs.current_data = None
     /\ inputs.hourly_data # None
     /\ inputs.daily_data # None)
    => /\ document.hourly = GivenHourly
       /\ document.daily = GivenDaily
       /\ PressureTrend(GivenHourly.pressure) # EmptyDict
              => /\ "derived" \in DOMAIN document
                 /\ "pressure_trend" \in DOMAIN document.derived

\* The derived block of the returned document, {} when it has none.
DocDerived == IF "derived" \in DOMAIN document THEN document.derived ELSE EmptyDict

\* The hourly series the latest run was given, as far as the run looks at them.
SeenHourly ==
    HourlyBlock(IF inputs.hourly_data = None THEN NoHourly ELSE inputs.hourly_data[1],
                inputs.now_local)

\* The field of a current value or of a station block the run was given, None
\* when the value or the block is missing.
GivenField(block, key) == IF block = None THEN None ELSE Get(block, key)

NullUpTo(series, n) == Len(series) < n \/ \E i \in 1..n : series[i] = None

\* C24: process_data returns a document whatever is null in its current,
\* hourly and station inputs, and a derived indicator whose input is null is
\* not in the derived block: the model pressure trend, the 850 hPa column
\* type, the trough signal, the sea breeze label and the best tendency.
C24_NullInputsOmitted ==
    document # EmptyDict =>
        /\ BaseKeys \subseteq DOMAIN document
        /\ NullUpTo(SeenHourly.pressure, 4)
               => {"pressure_trend", "pressure_trend_hpa_3h"} \cap DOMAIN DocDerived = {}
        /\ NullUpTo(SeenHourly.temp_850hpa, 1)
               => {"col_precip_type", "col_precip_conf", "temp_850hpa_now"}
                      \cap DOMAIN DocDerived = {}
        /\ NullUpTo(SeenHourly.height_850hpa, 7)
               => {"trough_signal", "height_850hpa_tend_6h"} \cap DOMAIN DocDerived = {}
        /\ (GivenField(inputs.pws, "temperature") = None
                \/ GivenField(inputs.buoy, "water_temp_f") = None)
               => {"sea_breeze_label", "sea_breeze_conf", "land_sea_diff_f",
                   "land_temp_f", "water_temp_f"} \cap DOMAIN DocDerived = {}
        /\ (/\ GivenField(inputs.kbos, "tendency_hpa") = None
            /\ GivenField(inputs.buoy, "pressure_tend_hpa") = None
            /\ NullUpTo(SeenHourly.pressure, 4))
               => {"best_pressure_tend", "best_pressure_tend_src", "pressure_alarm",
                   "pressure_alarm_label"} \cap DOMAIN DocDerived = {}

\* A run with current values, a null fourth hourly slot, a station without a
\* temperature and no observed tendency: the column type and the fog keys are
\* derived, the trend, the trough signal, the sea breeze and the best tendency
\* are not.
C24_Witness ==
    /\ document # EmptyDict
    /\ inputs.current_data # None
    /\ inputs.hourly_data = Some(HourlyOf(DocSlots, 4))
    /\ GivenField(inputs.pws, "temperature") = None
    /\ GivenField(inputs.kbos, "tendency_hpa") = None
    /\ GivenField(inputs.buoy, "pressure_tend_hpa") = None
    /\ {"col_precip_type", "fog_probability"} \subseteq DOMAIN DocDerived
    /\ DOMAIN DocDerived \cap {"pressure_trend", "trough_signal", "sea_breeze_label",
                               "best_pressure_tend"} = {}

\* The label and confidence the rules give in their order, for a difference
\* and a wind speed in tenths.
RuleOrder(diff, hour, wind, dir) ==
    LET daytime   == hour \in 9..19
        nighttime == hour >= 21 \/ hour <= 5
        below(n)  == wind # None /\ wind[1] < n
        onshore   == dir # None /\ (dir[1] \in 0..135 \/ dir[1] \in 315..360)
    IN  CASE diff >= 80 /\ daytime /\ below(60) -> <<"Sea breeze likely", Some("High")>>
          [] ~(diff >= 80 /\ daytime /\ below(60))
             /\ diff >= 50 /\ daytime /\ below(120)
                 -> <<"Sea breeze possible", Some("Moderate")>>
          [] ~(diff >= 50 /\ daytime /\ below(120))
             /\ diff >= 30 /\ daytime /\ below(120) /\ onshore
                 -> <<"Sea breeze developing", Some("Low")>>
          [] ~daytime /\ diff <= -50 /\ nighttime /\ below(60)
                 -> <<"Land breeze", Some("Moderate")>>
          [] OTHER -> <<"No sea breeze", None>>

\* C25: with both temperatures the sea breeze label and confidence are those
\* of the first matching rule, and without one of them no sea breeze key is
\* produced.
C25_SeaBreezeRules ==
    (document # EmptyDict /\ inputs.current_data # None) =>
        LET land  == GivenField(inputs.pws, "temperature")
            water == GivenField(inputs.buoy, "water_temp_f")
            cur   == inputs.current_data[1]
        IN  IF land # None /\ water # None
            THEN LET rule == RuleOrder(land[1] - water[1], inputs.hour,
                                       cur.wind_speed_10m, cur.wind_direction_10m)
                 IN  /\ "sea_breeze_label" \in DOMAIN DocDerived
                     /\ DocDerived.sea_breeze_label = rule[1]
                     /\ DocDerived.sea_breeze_conf = rule[2]
            ELSE {"sea_breeze_label", "sea_breeze_conf"} \cap DOMAIN DocDerived = {}

\* At 7 pm the land is 8.0 degrees warmer than the water and the wind blows
\* 6.0 mph: the first rule does not match, the second does.
C25_Witness ==
    /\ document # EmptyDict
    /\ inputs.hour = 19
    /\ inputs.pws.temperature = Some(680)
    /\ inputs.current_data[1].wind_speed_10m = Some(60)
    /\ DocDerived.sea_breeze_label = "Sea breeze possible"
    /\ DocDerived.sea_breeze_conf = Some("Moderate")
    /\ DocDerived.land_sea_diff_f = 80

-----------------------------------------------------------------------------
(* Properties of the model fetchers *)

\* The latest call was one of fetch_hourly_hrrr and fetch_daily_ecmwf.
FallbackCall ==
    /\ requested # <<>>
    /\ requested[1].label \in {HrrrRequest.label, EcmwfRequest.label}

Failed(request) == request.resp.kind # "ok"

\* C26: the fallback request is made only after the primary request failed,
\* and once; a primary that succeeds is the only request; the data and the
\* status returned are those of the last request, so the status is "error"
\* with no data only when both failed, and a fallback that succeeds returns
\* "ok" under the label of the fallback.
C26_FallbackOnce ==
    FallbackCall =>
        LET n    == Len(requested)
            last == requested[n]
        IN  /\ n \in {1, 2}
            /\ requested[1].params.models # None
            /\ n = 2 <=> Failed(requested[1])
            /\ n = 2 => /\ requested[2].params.models = None
                        /\ requested[2].params.section = requested[1].params.section
                        /\ requested[2].label # requested[1].label
            /\ om_ret.meta.model = last.label
            /\ om_ret.meta.status = (IF Failed(last) THEN "error" ELSE "ok")
            /\ om_ret.data = (IF Failed(last) THEN None ELSE Some(last.resp.data))
            /\ (om_ret.meta.status = "error" /\ om_ret.data = None)
                   <=> \A i \in 1..n : Failed(requested[i])
            /\ om_ret.meta.status = "error" => n = 2

\* HRRR timed out and the GFS fallback delivered: two requests, status "ok"
\* under the fallback's label.
C26_Witness ==
    /\ Len(requested) = 2
    /\ requested[1].label = "HRRR hourly" /\ requested[1].resp.kind = "http"
    /\ requested[2].label = "GFS seamless (HRRR fallback)"
    /\ requested[2].resp.kind = "ok"
    /\ om_ret.meta = [status |-> "ok", error |-> None,
                      model |-> "GFS seamless (HRRR fallback)"]
    /\ om_ret.data = Some(requested[2].resp.data)

-----------------------------------------------------------------------------
(* Properties of the stored frost log *)

\* C27: in every stored frost log severe_days <= hard_freeze_days <=
\* freeze_days, and each last_* date is null exactly when its counter is 0.
C27_CounterOrder ==
    frost_file # None =>
        LET log == frost_file[1]
        IN  /\ 0 <= log.severe_days
            /\ log.severe_days <= log.hard_freeze_days
            /\ log.hard_freeze_days <= log.freeze_days
            /\ log.last_freeze = None <=> log.freeze_days = 0
            /\ log.last_hard = None <=> log.hard_freeze_days = 0
            /\ log.last_severe = None <=> log.severe_days = 0

\* A stored log with two freeze days of which one was a hard freeze and none
\* a severe one.
C27_Witness ==
    /\ lastOp = "run"
    /\ Counters(frost_file[1]) = <<2, 1, 0>>
    /\ frost_file[1].last_severe = None
    /\ frost_file[1].last_hard # None
    /\ frost_file[1].last_freeze # None

-----------------------------------------------------------------------------
(* Properties of an invocation *)

\* The block of the returned document that supplied the selected tendency.
TendencyBlock ==
    IF DocDerived.best_pressure_tend_src = "KBOS" THEN document.kbos
    ELSE IF DocDerived.best_pressure_tend_src = "Buoy" THEN document.buoy_44013
    ELSE EmptyDict

\* C28: the tendency selected for the pressure alarm is not the one of a
\* stale observation, one a failed KBOS or buoy fetch returned from its cache.
C28_TendencyOfThisRun ==
    (document # EmptyDict /\ "best_pressure_tend_src" \in DOMAIN DocDerived)
        => "stale" \notin DOMAIN TendencyBlock

-----------------------------------------------------------------------------
(* Properties of invocations on the same files *)

\* Both invocations fetched an observation of KBOS and wrote the history, and
\* the history holds one observation: the write of the one that read first
\* was overwritten.
LostUpdate ==
    /\ \A p \in Invocations : reading[p] = Idle
    /\ Len(fetched["KBOS"]) = 2
    /\ asos_file["KBOS"] # None
    /\ Len(asos_file["KBOS"][1]) = 1

\* The dates of the stored season that have incremented a counter.
CountedThisSeason == {d \in counted : d >= frost_file[1].season_start}

\* C29: whether invocations follow one another or overlap, a counter of the
\* frost log counts a date once: freeze_days is never more than the number of
\* dates of the season that have been counted.
C29_CountedOncePerDate ==
    frost_file # None => frost_file[1].freeze_days <= Cardinality(CountedThisSeason)

-----------------------------------------------------------------------------
(* Properties of the hourly block *)

\* The series of the fetched forecast under the names of the hourly block.
FetchedSeries ==
    LET raw == inputs.hourly_data[1]
    IN  [times |-> raw.time, temperature |-> raw.temperature_2m,
         humidity |-> raw.relative_humidity_2m, dew_point |-> raw.dew_point_2m,
         wind_speed |-> raw.wind_speed_10m, wind_gusts |-> raw.wind_gusts_10m,
         wind_direction |-> raw.wind_direction_10m, pressure |-> raw.pressure_msl,
         temp_850hpa |-> raw.temperature_850hPa,
         height_850hpa |-> raw.geopotential_height_850hPa]

\* The fetched slots that are not before the local time of the run.
SlotsFromNow ==
    {k \in 1..Len(FetchedSeries.times) : FetchedSeries.times[k][1] >= inputs.now_local}

\* C30: the hourly block holds at most 48 slots, every series cut at the same
\* offset of the fetched forecast; it starts at the first fetched slot that
\* is not before now, and no slot of it is before now, also when every
\* fetched slot is.
C30_HourlyFromNow ==
    (document # EmptyDict /\ inputs.current_data # None /\ inputs.hourly_data # None) =>
        LET blk == document.hourly
        IN  /\ \A key \in DOMAIN blk : Len(blk[key]) <= HOURLY_SLOTS
            /\ \E offset \in 0..Len(FetchedSeries.times) :
                   \A key \in DOMAIN blk :
                       \A i \in 1..Len(blk[key]) :
                           blk[key][i] = FetchedSeries[key][offset + i]
            /\ SlotsFromNow # {} =>
                   /\ blk.times # <<>>
                   /\ blk.times[1] = FetchedSeries.times[MinOf(SlotsFromNow)]
            /\ \A i \in 1..Len(blk.times) : blk.times[i][1] >= inputs.now_local

====
